---- MODULE Spec2Model ----
(***************************************************************************)
(* Conversation engine of the travel assistant: intent detection, context  *)
(* extraction, the conversation state machine and the session store        *)
(* (app/core/conversation.py, app/models/conversation.py), together with   *)
(* the request handlers that drive it (app/main.py), the recovery engine   *)
(* (app/core/error_recovery.py), the quality memory of the context manager *)
(* and the data cache of app/services/external_apis.py.                    *)
(*                                                                         *)
(* A message is the sequence of its words (the maximal \w+ runs of the     *)
(* text, in their original case); punctuation and the amount of white      *)
(* space between words are not represented.  A regular expression of the   *)
(* source is matched on this word sequence: \b(a|b c)\b is a phrase        *)
(* occurring at consecutive words, X.*Y is a phrase followed, later, by a  *)
(* phrase.  Python's substring tests ("kw in text") look inside words      *)
(* through the PROPER_SUBSTRING relation of the vocabulary.  A destination *)
(* is the sequence of its words; Optional values use None, the empty       *)
(* sequence, which the source's truthiness tests do not tell from "".      *)
(***************************************************************************)
EXTENDS Naturals, Integers, Sequences, FiniteSets, TLC

VARIABLES
  sessions,   \* ConversationEngine.sessions: session id -> ConversationSession
  now,        \* datetime.now(), counted in calls made so far
  last,       \* the last call: its arguments, the store before it, its result
  calls,      \* session id -> the process_message calls and creations so far
  handlers,   \* the chat requests: their position in chat() and their locals
  error_history,  \* ConversationRecoveryEngine.error_history
  conversation_memory,  \* SmartContextManager.conversation_memory
  smart_caching   \* DataAugmentationService.smart_caching, in insertion order

vars ==
  <<sessions, now, last, calls, handlers, error_history, conversation_memory,
    smart_caching>>

-----------------------------------------------------------------------------
(* Enumerations of app/models/conversation.py *)

GREETING == "greeting"
DESTINATION_PLANNING == "destination_planning"
ACTIVITY_DISCOVERY == "activity_discovery"
PRACTICAL_PLANNING == "practical_planning"
CONTEXT_ENRICHMENT == "context_enrichment"
RECOMMENDATION_REFINEMENT == "recommendation_refinement"

ConversationState ==
  {GREETING, DESTINATION_PLANNING, ACTIVITY_DISCOVERY, PRACTICAL_PLANNING,
   CONTEXT_ENRICHMENT, RECOMMENDATION_REFINEMENT}

DESTINATION_INQUIRY == "destination_inquiry"
ACTIVITY_REQUEST == "activity_request"
WEATHER_CHECK == "weather_check"
CULTURAL_INFO == "cultural_info"
PRACTICAL_ADVICE == "practical_advice"
BUDGET_PLANNING == "budget_planning"
PACKING_HELP == "packing_help"

UserIntent ==
  {DESTINATION_INQUIRY, ACTIVITY_REQUEST, WEATHER_CHECK, CULTURAL_INFO,
   PRACTICAL_ADVICE, BUDGET_PLANNING, PACKING_HELP}

USER == "user"
ASSISTANT == "assistant"

None == <<>>

-----------------------------------------------------------------------------
(* The messages of the model and the tables of their words *)

M_EMPTY == <<>>
M_HMM == <<"hmm", "ok">>
M_TOKYO == <<"I", "m", "heading", "to", "Tokyo">>
M_WEATHER == <<"What", "s", "the", "weather", "like", "there">>
M_PARIS == <<"I", "want", "to", "visit", "Paris">>
M_PARIS_LOWER == <<"paris">>
M_LANDSCAPE == <<"I", "love", "landscape", "photography">>
M_PACK == <<"What", "should", "I", "pack">>
M_LONDON == <<"I", "want", "to", "visit", "London">>
M_ROME == <<"I", "want", "to", "visit", "Rome">>
M_OSLO == <<"I", "want", "to", "visit", "Oslo">>
M_VISIT_TOKYO == <<"I", "want", "to", "visit", "Tokyo">>
M_ICELAND == <<"I", "want", "to", "visit", "Iceland", "for", "landscape", "photography">>
M_ANGRY == <<"this", "is", "wrong", "this", "is", "confusing", "start", "over">>
M_CONFUSING == <<"this", "is", "confusing", "I", "already", "told", "you">>
M_HOTEL == <<"I", "want", "a", "safe", "trip", "with", "local", "food", "a", "museum", "and", "a", "cheap", "hotel">>
M_SAFE == <<"Is", "it", "safe">>
M_SAFE_THERE == <<"Is", "it", "safe", "and", "how", "s", "it", "there">>

LOWER ==
  "hmm" :> "hmm" @@ "Hmm" :> "hmm" @@ "ok" :> "ok" @@ "Ok" :> "ok" @@
  "I" :> "i" @@ "i" :> "i" @@ "m" :> "m" @@ "M" :> "m" @@
  "heading" :> "heading" @@ "Heading" :> "heading" @@ "to" :> "to" @@
  "To" :> "to" @@ "Tokyo" :> "tokyo" @@ "tokyo" :> "tokyo" @@
  "What" :> "what" @@ "what" :> "what" @@ "s" :> "s" @@ "S" :> "s" @@
  "the" :> "the" @@ "The" :> "the" @@ "weather" :> "weather" @@
  "Weather" :> "weather" @@ "like" :> "like" @@ "Like" :> "like" @@
  "there" :> "there" @@ "There" :> "there" @@ "want" :> "want" @@
  "Want" :> "want" @@ "visit" :> "visit" @@ "Visit" :> "visit" @@
  "Paris" :> "paris" @@ "paris" :> "paris" @@ "love" :> "love" @@
  "Love" :> "love" @@ "landscape" :> "landscape" @@
  "Landscape" :> "landscape" @@ "photography" :> "photography" @@
  "Photography" :> "photography" @@ "should" :> "should" @@
  "Should" :> "should" @@ "pack" :> "pack" @@ "Pack" :> "pack" @@
  "London" :> "london" @@ "london" :> "london" @@ "Rome" :> "rome" @@
  "rome" :> "rome" @@ "Oslo" :> "oslo" @@ "oslo" :> "oslo" @@
  "Iceland" :> "iceland" @@ "iceland" :> "iceland" @@ "for" :> "for" @@
  "For" :> "for" @@ "this" :> "this" @@ "This" :> "this" @@ "is" :> "is" @@
  "Is" :> "is" @@ "wrong" :> "wrong" @@ "Wrong" :> "wrong" @@
  "confusing" :> "confusing" @@ "Confusing" :> "confusing" @@
  "start" :> "start" @@ "Start" :> "start" @@ "over" :> "over" @@
  "Over" :> "over" @@ "already" :> "already" @@ "Already" :> "already" @@
  "told" :> "told" @@ "Told" :> "told" @@ "you" :> "you" @@
  "You" :> "you" @@ "a" :> "a" @@ "A" :> "a" @@ "safe" :> "safe" @@
  "Safe" :> "safe" @@ "trip" :> "trip" @@ "Trip" :> "trip" @@
  "with" :> "with" @@ "With" :> "with" @@ "local" :> "local" @@
  "Local" :> "local" @@ "food" :> "food" @@ "Food" :> "food" @@
  "museum" :> "museum" @@ "Museum" :> "museum" @@ "and" :> "and" @@
  "And" :> "and" @@ "cheap" :> "cheap" @@ "Cheap" :> "cheap" @@
  "hotel" :> "hotel" @@ "Hotel" :> "hotel" @@ "it" :> "it" @@
  "It" :> "it" @@ "how" :> "how" @@ "How" :> "how" @@ "Sure" :> "sure" @@
  "sure" :> "sure" @@ "aspect" :> "aspect" @@ "Aspect" :> "aspect" @@
  "of" :> "of" @@ "Of" :> "of" @@ "your" :> "your" @@ "Your" :> "your" @@
  "would" :> "would" @@ "Would" :> "would" @@ "explore" :> "explore" @@
  "Explore" :> "explore" @@ "first" :> "first" @@ "First" :> "first" @@
  "lovely" :> "lovely" @@ "Lovely" :> "lovely" @@ "in" :> "in" @@
  "In" :> "in" @@ "spring" :> "spring" @@ "Spring" :> "spring" @@
  "22" :> "22" @@ "degrees" :> "degrees" @@ "Degrees" :> "degrees" @@
  "today" :> "today" @@ "Today" :> "today" @@ "give" :> "give" @@
  "Give" :> "give" @@ "best" :> "best" @@ "Best" :> "best" @@
  "travel" :> "travel" @@ "Travel" :> "travel" @@ "advice" :> "advice" @@
  "Advice" :> "advice" @@ "possible" :> "possible" @@
  "Possible" :> "possible" @@ "Could" :> "could" @@ "could" :> "could" @@
  "help" :> "help" @@ "Help" :> "help" @@ "me" :> "me" @@ "Me" :> "me" @@
  "understand" :> "understand" @@ "Understand" :> "understand" @@
  "exactly" :> "exactly" @@ "Exactly" :> "exactly" @@ "re" :> "re" @@
  "Re" :> "re" @@ "looking" :> "looking" @@ "Looking" :> "looking" @@
  "can" :> "can" @@ "Can" :> "can" @@ "assist" :> "assist" @@
  "Assist" :> "assist" @@ "destinations" :> "destinations" @@
  "Destinations" :> "destinations" @@ "activities" :> "activities" @@
  "Activities" :> "activities" @@ "planning" :> "planning" @@
  "Planning" :> "planning" @@ "or" :> "or" @@ "Or" :> "or" @@
  "any" :> "any" @@ "Any" :> "any" @@ "specific" :> "specific" @@
  "Specific" :> "specific" @@ "questions" :> "questions" @@
  "Questions" :> "questions" @@ "have" :> "have" @@ "Have" :> "have" @@
  "C" :> "c" @@ "c" :> "c" @@ "partly" :> "partly" @@
  "Partly" :> "partly" @@ "cloudy" :> "cloudy" @@ "Cloudy" :> "cloudy" @@
  "Perfect" :> "perfect" @@ "perfect" :> "perfect" @@
  "exploring" :> "exploring" @@ "Exploring" :> "exploring" @@
  "city" :> "city" @@ "City" :> "city" @@ "type" :> "type" @@
  "Type" :> "type" @@ "are" :> "are" @@ "Are" :> "are" @@
  "most" :> "most" @@ "Most" :> "most" @@ "interested" :> "interested" @@
  "Interested" :> "interested" @@ "d" :> "d" @@ "D" :> "d" @@
  "plan" :> "plan" @@ "Plan" :> "plan" @@ "times" :> "times" @@
  "Times" :> "times" @@ "typically" :> "typically" @@
  "Typically" :> "typically" @@ "during" :> "during" @@
  "During" :> "during" @@ "golden" :> "golden" @@ "Golden" :> "golden" @@
  "hours" :> "hours" @@ "Hours" :> "hours" @@ "stunning" :> "stunning" @@
  "Stunning" :> "stunning" @@ "light" :> "light" @@ "Light" :> "light" @@
  "different" :> "different" @@ "Different" :> "different" @@
  "seasons" :> "seasons" @@ "Seasons" :> "seasons" @@ "offer" :> "offer" @@
  "Offer" :> "offer" @@ "unique" :> "unique" @@ "Unique" :> "unique" @@
  "opportunities" :> "opportunities" @@
  "Opportunities" :> "opportunities" @@ "style" :> "style" @@
  "Style" :> "style" @@ "captures" :> "captures" @@
  "Captures" :> "captures" @@ "interest" :> "interest" @@
  "Interest" :> "interest" @@ "further" :> "further" @@
  "Further" :> "further" @@ "Regarding" :> "regarding" @@
  "regarding" :> "regarding" @@ "banff" :> "banff" @@ "Banff" :> "banff" @@
  "new" :> "new" @@ "New" :> "new" @@ "zealand" :> "zealand" @@
  "Zealand" :> "zealand" @@ "norway" :> "norway" @@ "Norway" :> "norway" @@
  "patagonia" :> "patagonia" @@ "Patagonia" :> "patagonia" @@
  "dolomites" :> "dolomites" @@ "Dolomites" :> "dolomites" @@
  "york" :> "york" @@ "York" :> "york" @@ "barcelona" :> "barcelona" @@
  "Barcelona" :> "barcelona"

TITLE ==
  "hmm" :> "Hmm" @@ "Hmm" :> "Hmm" @@ "ok" :> "Ok" @@ "Ok" :> "Ok" @@
  "I" :> "I" @@ "i" :> "I" @@ "m" :> "M" @@ "M" :> "M" @@
  "heading" :> "Heading" @@ "Heading" :> "Heading" @@ "to" :> "To" @@
  "To" :> "To" @@ "Tokyo" :> "Tokyo" @@ "tokyo" :> "Tokyo" @@
  "What" :> "What" @@ "what" :> "What" @@ "s" :> "S" @@ "S" :> "S" @@
  "the" :> "The" @@ "The" :> "The" @@ "weather" :> "Weather" @@
  "Weather" :> "Weather" @@ "like" :> "Like" @@ "Like" :> "Like" @@
  "there" :> "There" @@ "There" :> "There" @@ "want" :> "Want" @@
  "Want" :> "Want" @@ "visit" :> "Visit" @@ "Visit" :> "Visit" @@
  "Paris" :> "Paris" @@ "paris" :> "Paris" @@ "love" :> "Love" @@
  "Love" :> "Love" @@ "landscape" :> "Landscape" @@
  "Landscape" :> "Landscape" @@ "photography" :> "Photography" @@
  "Photography" :> "Photography" @@ "should" :> "Should" @@
  "Should" :> "Should" @@ "pack" :> "Pack" @@ "Pack" :> "Pack" @@
  "London" :> "London" @@ "london" :> "London" @@ "Rome" :> "Rome" @@
  "rome" :> "Rome" @@ "Oslo" :> "Oslo" @@ "oslo" :> "Oslo" @@
  "Iceland" :> "Iceland" @@ "iceland" :> "Iceland" @@ "for" :> "For" @@
  "For" :> "For" @@ "this" :> "This" @@ "This" :> "This" @@ "is" :> "Is" @@
  "Is" :> "Is" @@ "wrong" :> "Wrong" @@ "Wrong" :> "Wrong" @@
  "confusing" :> "Confusing" @@ "Confusing" :> "Confusing" @@
  "start" :> "Start" @@ "Start" :> "Start" @@ "over" :> "Over" @@
  "Over" :> "Over" @@ "already" :> "Already" @@ "Already" :> "Already" @@
  "told" :> "Told" @@ "Told" :> "Told" @@ "you" :> "You" @@
  "You" :> "You" @@ "a" :> "A" @@ "A" :> "A" @@ "safe" :> "Safe" @@
  "Safe" :> "Safe" @@ "trip" :> "Trip" @@ "Trip" :> "Trip" @@
  "with" :> "With" @@ "With" :> "With" @@ "local" :> "Local" @@
  "Local" :> "Local" @@ "food" :> "Food" @@ "Food" :> "Food" @@
  "museum" :> "Museum" @@ "Museum" :> "Museum" @@ "and" :> "And" @@
  "And" :> "And" @@ "cheap" :> "Cheap" @@ "Cheap" :> "Cheap" @@
  "hotel" :> "Hotel" @@ "Hotel" :> "Hotel" @@ "it" :> "It" @@
  "It" :> "It" @@ "how" :> "How" @@ "How" :> "How" @@ "Sure" :> "Sure" @@
  "sure" :> "Sure" @@ "aspect" :> "Aspect" @@ "Aspect" :> "Aspect" @@
  "of" :> "Of" @@ "Of" :> "Of" @@ "your" :> "Your" @@ "Your" :> "Your" @@
  "would" :> "Would" @@ "Would" :> "Would" @@ "explore" :> "Explore" @@
  "Explore" :> "Explore" @@ "first" :> "First" @@ "First" :> "First" @@
  "lovely" :> "Lovely" @@ "Lovely" :> "Lovely" @@ "in" :> "In" @@
  "In" :> "In" @@ "spring" :> "Spring" @@ "Spring" :> "Spring" @@
  "22" :> "22" @@ "degrees" :> "Degrees" @@ "Degrees" :> "Degrees" @@
  "today" :> "Today" @@ "Today" :> "Today" @@ "give" :> "Give" @@
  "Give" :> "Give" @@ "best" :> "Best" @@ "Best" :> "Best" @@
  "travel" :> "Travel" @@ "Travel" :> "Travel" @@ "advice" :> "Advice" @@
  "Advice" :> "Advice" @@ "possible" :> "Possible" @@
  "Possible" :> "Possible" @@ "Could" :> "Could" @@ "could" :> "Could" @@
  "help" :> "Help" @@ "Help" :> "Help" @@ "me" :> "Me" @@ "Me" :> "Me" @@
  "understand" :> "Understand" @@ "Understand" :> "Understand" @@
  "exactly" :> "Exactly" @@ "Exactly" :> "Exactly" @@ "re" :> "Re" @@
  "Re" :> "Re" @@ "looking" :> "Looking" @@ "Looking" :> "Looking" @@
  "can" :> "Can" @@ "Can" :> "Can" @@ "assist" :> "Assist" @@
  "Assist" :> "Assist" @@ "destinations" :> "Destinations" @@
  "Destinations" :> "Destinations" @@ "activities" :> "Activities" @@
  "Activities" :> "Activities" @@ "planning" :> "Planning" @@
  "Planning" :> "Planning" @@ "or" :> "Or" @@ "Or" :> "Or" @@
  "any" :> "Any" @@ "Any" :> "Any" @@ "specific" :> "Specific" @@
  "Specific" :> "Specific" @@ "questions" :> "Questions" @@
  "Questions" :> "Questions" @@ "have" :> "Have" @@ "Have" :> "Have" @@
  "C" :> "C" @@ "c" :> "C" @@ "partly" :> "Partly" @@
  "Partly" :> "Partly" @@ "cloudy" :> "Cloudy" @@ "Cloudy" :> "Cloudy" @@
  "Perfect" :> "Perfect" @@ "perfect" :> "Perfect" @@
  "exploring" :> "Exploring" @@ "Exploring" :> "Exploring" @@
  "city" :> "City" @@ "City" :> "City" @@ "type" :> "Type" @@
  "Type" :> "Type" @@ "are" :> "Are" @@ "Are" :> "Are" @@
  "most" :> "Most" @@ "Most" :> "Most" @@ "interested" :> "Interested" @@
  "Interested" :> "Interested" @@ "d" :> "D" @@ "D" :> "D" @@
  "plan" :> "Plan" @@ "Plan" :> "Plan" @@ "times" :> "Times" @@
  "Times" :> "Times" @@ "typically" :> "Typically" @@
  "Typically" :> "Typically" @@ "during" :> "During" @@
  "During" :> "During" @@ "golden" :> "Golden" @@ "Golden" :> "Golden" @@
  "hours" :> "Hours" @@ "Hours" :> "Hours" @@ "stunning" :> "Stunning" @@
  "Stunning" :> "Stunning" @@ "light" :> "Light" @@ "Light" :> "Light" @@
  "different" :> "Different" @@ "Different" :> "Different" @@
  "seasons" :> "Seasons" @@ "Seasons" :> "Seasons" @@ "offer" :> "Offer" @@
  "Offer" :> "Offer" @@ "unique" :> "Unique" @@ "Unique" :> "Unique" @@
  "opportunities" :> "Opportunities" @@
  "Opportunities" :> "Opportunities" @@ "style" :> "Style" @@
  "Style" :> "Style" @@ "captures" :> "Captures" @@
  "Captures" :> "Captures" @@ "interest" :> "Interest" @@
  "Interest" :> "Interest" @@ "further" :> "Further" @@
  "Further" :> "Further" @@ "Regarding" :> "Regarding" @@
  "regarding" :> "Regarding" @@ "banff" :> "Banff" @@ "Banff" :> "Banff" @@
  "new" :> "New" @@ "New" :> "New" @@ "zealand" :> "Zealand" @@
  "Zealand" :> "Zealand" @@ "norway" :> "Norway" @@ "Norway" :> "Norway" @@
  "patagonia" :> "Patagonia" @@ "Patagonia" :> "Patagonia" @@
  "dolomites" :> "Dolomites" @@ "Dolomites" :> "Dolomites" @@
  "york" :> "York" @@ "York" :> "York" @@ "barcelona" :> "Barcelona" @@
  "Barcelona" :> "Barcelona"

ONE_CHAR_TOKENS == {"I", "i", "m", "M", "s", "S", "a", "A", "C", "c", "d", "D"}

TWO_CHAR_TOKENS == {"ok", "Ok", "to", "To", "is", "Is", "it", "It", "of", "Of", "in", "In", "22", "me", "Me", "re", "Re", "or", "Or"}

PROPER_SUBSTRING ==
  {<<"activities", "it">>,
   <<"city", "it">>,
   <<"destinations", "destination">>,
   <<"opportunities", "it">>,
   <<"partly", "art">>,
   <<"start", "art">>,
   <<"times", "time">>,
   <<"visit", "it">>,
   <<"weather", "eat">>,
   <<"with", "it">>}

PROPER_PREFIX ==
  {<<"destinations", "destination">>,
   <<"golden", "go">>,
   <<"interest", "in">>,
   <<"interested", "in">>,
   <<"offer", "of">>,
   <<"times", "time">>,
   <<"today", "to">>,
   <<"tokyo", "to">>,
   <<"told", "to">>,
   <<"your", "you">>}

PROPER_SUFFIX ==
  {<<"start", "art">>,
   <<"visit", "it">>}

Lower(tok) == IF tok \in DOMAIN LOWER THEN LOWER[tok] ELSE tok

TitleWord(tok) == IF tok \in DOMAIN TITLE THEN TITLE[tok] ELSE tok

\* str.lower() and str.title() of a text, word by word
LowerText(text) == [i \in 1..Len(text) |-> Lower(text[i])]

TitleText(text) == [i \in 1..Len(text) |-> TitleWord(text[i])]

\* the word w starts with / ends with / contains the word kw
StartsWith(w, kw) == w = kw \/ <<w, kw>> \in PROPER_PREFIX

EndsWith(w, kw) == w = kw \/ <<w, kw>> \in PROPER_SUFFIX

Contains(w, kw) ==
  \/ w = kw
  \/ <<w, kw>> \in PROPER_SUBSTRING \cup PROPER_PREFIX \cup PROPER_SUFFIX

(* One part of a regular expression: an alternation of phrases, anchored   *)
(* by \b on its left (lb) and on its right (rb).                           *)
Words(phrases) == [ph |-> phrases, lb |-> TRUE, rb |-> TRUE]

PrefixOf(phrases) == [ph |-> phrases, lb |-> TRUE, rb |-> FALSE]

SuffixOf(phrases) == [ph |-> phrases, lb |-> FALSE, rb |-> TRUE]

Substring(phrases) == [ph |-> phrases, lb |-> FALSE, rb |-> FALSE]

\* the phrase ph of the part stands at the words i, i+1, ... of text
PartAt(text, part, ph, i) ==
  LET n == Len(ph) IN
  /\ n > 0
  /\ i >= 1
  /\ i + n - 1 <= Len(text)
  /\ IF n = 1
     THEN CASE part.lb /\ part.rb -> text[i] = ph[1]
            [] part.lb /\ ~part.rb -> StartsWith(text[i], ph[1])
            [] ~part.lb /\ part.rb -> EndsWith(text[i], ph[1])
            [] OTHER -> Contains(text[i], ph[1])
     ELSE /\ IF part.lb THEN text[i] = ph[1] ELSE EndsWith(text[i], ph[1])
          /\ IF part.rb THEN text[i + n - 1] = ph[n]
                        ELSE StartsWith(text[i + n - 1], ph[n])
          /\ \A k \in 2..(n - 1) : text[i + k - 1] = ph[k]

\* the parts k, k+1, ... of a pattern occur in this order from word `from` on
RECURSIVE MatchFrom(_, _, _, _)
MatchFrom(pattern, k, text, from) ==
  IF k > Len(pattern) THEN TRUE
  ELSE \E ph \in pattern[k].ph : \E i \in from..Len(text) :
          /\ PartAt(text, pattern[k], ph, i)
          /\ MatchFrom(pattern, k + 1, text, i + Len(ph))

\* re.search(pattern, text) is not None
Search(pattern, text) == MatchFrom(pattern, 1, text, 1)

\* Python's "phrase in text"
InText(phrase, text) == Search(<<Substring({phrase})>>, text)

\* any(w in text for w in words)
AnyInText(phrases, text) == \E ph \in phrases : InText(ph, text)

-----------------------------------------------------------------------------
(* IntentDetector *)

DESTINATION_INQUIRY_PATTERNS ==
  <<
   <<Words({<<"where">>, <<"destination">>, <<"place">>, <<"country">>, <<"city">>,
            <<"visit">>, <<"go">>, <<"travel", "to">>, <<"head", "to">>,
            <<"fly", "to">>})>>,
   <<Words({<<"recommend">>, <<"suggest">>, <<"best">>, <<"good">>, <<"top">>,
            <<"favorite">>, <<"amazing">>, <<"incredible">>}),
     Words({<<"place">>, <<"destination">>, <<"country">>, <<"city">>, <<"spot">>,
            <<"location">>})>>,
   <<Words({<<"thinking", "about">>, <<"considering">>, <<"planning">>,
            <<"want", "to">>, <<"looking", "to">>, <<"hoping", "to">>}),
     Words({<<"trip">>, <<"travel">>, <<"visit">>, <<"vacation">>, <<"journey">>,
            <<"adventure">>})>>,
   <<Words({<<"should", "I", "go">>, <<"worth", "visiting">>,
            <<"tell", "me", "about">>, <<"know", "about">>, <<"heard", "about">>})>>,
   <<Words({<<"which", "country">>, <<"what", "country">>, <<"which", "city">>,
            <<"what", "city">>, <<"which", "place">>, <<"what", "place">>})>>,
   <<Words({<<"where", "would", "you">>, <<"where", "do", "you">>,
            <<"any", "ideas", "for">>, <<"suggestions", "for">>}),
     Words({<<"travel">>, <<"trip">>, <<"vacation">>})>>,
   <<Words({<<"choose", "between">>, <<"deciding", "between">>,
            <<"torn", "between">>, <<"can", "t", "decide">>}),
     Words({<<"destination">>, <<"place">>, <<"country">>})>>,
   <<Words({<<"first", "time">>, <<"never", "been">>, <<"always", "wanted">>}),
     Words({<<"visit">>, <<"go">>, <<"travel">>})>>
  >>

ACTIVITY_REQUEST_PATTERNS ==
  <<
   <<PrefixOf({<<"what">>}),
     SuffixOf({<<"do">>, <<"see">>, <<"visit">>, <<"experience">>, <<"try">>})>>,
   <<Words({<<"activities">>, <<"things", "to", "do">>, <<"attractions">>,
            <<"sightseeing">>, <<"must", "see">>, <<"must", "do">>,
            <<"highlights">>})>>,
   <<Words({<<"fun">>, <<"interesting">>, <<"exciting">>, <<"cool">>,
            <<"awesome">>, <<"amazing">>}),
     Words({<<"do">>, <<"see">>, <<"visit">>, <<"experience">>, <<"try">>})>>,
   <<Words({<<"museums">>, <<"galleries">>, <<"restaurants">>, <<"cafes">>,
            <<"bars">>, <<"nightlife">>, <<"shopping">>, <<"markets">>,
            <<"hiking">>, <<"beaches">>, <<"parks">>})>>,
   <<Words({<<"tours">>, <<"excursions">>, <<"day", "trips">>, <<"experiences">>,
            <<"adventures">>, <<"cultural">>, <<"historic">>, <<"scenic">>})>>,
   <<Words({<<"activity">>, <<"activities">>, <<"entertainment">>,
            <<"recreation">>}),
     Words({<<"suggestions">>, <<"recommend">>, <<"ideas">>})>>,
   <<Words({<<"keep", "me", "busy">>, <<"things", "to", "see">>,
            <<"worth", "doing">>, <<"can", "t", "miss">>, <<"bucket", "list">>})>>,
   <<Words({<<"local", "spots">>, <<"hidden", "gems">>,
            <<"off", "beaten", "path">>, <<"authentic">>, <<"traditional">>})>>,
   <<Words({<<"family", "friendly">>, <<"romantic">>, <<"solo", "travel">>,
            <<"group">>}),
     Words({<<"activities">>, <<"things">>, <<"spots">>})>>,
   <<Words({<<"food", "scene">>, <<"art", "scene">>, <<"music", "scene">>,
            <<"outdoor">>, <<"nature">>, <<"history">>, <<"architecture">>})>>,
   <<Words({<<"photography">>, <<"instagram">>, <<"photos">>, <<"scenic">>,
            <<"beautiful">>, <<"stunning">>}),
     Words({<<"spots">>, <<"places">>, <<"views">>})>>
  >>

WEATHER_CHECK_PATTERNS ==
  <<
   <<Words({<<"weather">>, <<"temperature">>, <<"climate">>, <<"conditions">>,
            <<"forecast">>})>>,
   <<Words({<<"rain">>, <<"sunny">>, <<"cloudy">>, <<"cold">>, <<"hot">>,
            <<"warm">>, <<"cool">>, <<"humid">>, <<"dry">>, <<"windy">>})>>,
   <<Words({<<"degrees">>, <<"celsius">>, <<"fahrenheit">>, <<"degC">>, <<"degF">>})>>,
   <<Words({<<"best", "time">>, <<"when", "to", "visit">>, <<"good", "time">>,
            <<"right", "time">>, <<"season">>, <<"seasonal">>})>>,
   <<Words({<<"spring">>, <<"summer">>, <<"fall">>, <<"autumn">>, <<"winter">>,
            <<"january">>, <<"february">>, <<"march">>, <<"april">>, <<"may">>,
            <<"june">>, <<"july">>, <<"august">>, <<"september">>, <<"october">>,
            <<"november">>, <<"december">>})>>,
   <<Words({<<"rainy", "season">>, <<"dry", "season">>, <<"monsoon">>,
            <<"hurricane">>, <<"typhoon">>})>>,
   <<Words({<<"pack">>, <<"packing">>, <<"clothing">>, <<"clothes">>,
            <<"what", "to", "wear">>, <<"dress">>, <<"outfit">>})>>,
   <<Words({<<"jacket">>, <<"coat">>, <<"shorts">>, <<"sandals">>, <<"boots">>,
            <<"umbrella">>, <<"sunscreen">>})>>,
   <<Words({<<"too", "hot">>, <<"too", "cold">>, <<"comfortable">>, <<"pleasant">>,
            <<"avoid">>, <<"unbearable">>}),
     Words({<<"weather">>, <<"temperature">>, <<"climate">>})>>
  >>

CULTURAL_INFO_PATTERNS ==
  <<
   <<Words({<<"culture">>, <<"cultural">>, <<"customs">>, <<"traditions">>,
            <<"etiquette">>, <<"manners">>, <<"protocol">>})>>,
   <<Words({<<"people">>, <<"locals">>, <<"society">>, <<"community">>,
            <<"lifestyle">>, <<"way", "of", "life">>})>>,
   <<Words({<<"history">>, <<"historical">>, <<"heritage">>, <<"ancient">>,
            <<"traditional">>, <<"indigenous">>})>>,
   <<Words({<<"language">>, <<"speak">>, <<"dialect">>, <<"communication">>,
            <<"translate">>, <<"interpreter">>})>>,
   <<Words({<<"religion">>, <<"religious">>, <<"spiritual">>, <<"beliefs">>,
            <<"ceremonies">>, <<"temples">>, <<"churches">>})>>,
   <<Words({<<"festivals">>, <<"celebrations">>, <<"holidays">>, <<"events">>,
            <<"carnival">>, <<"parade">>})>>,
   <<Words({<<"should", "I", "know">>, <<"need", "to", "know">>, <<"be", "aware">>,
            <<"respectful">>, <<"appropriate">>, <<"inappropriate">>})>>,
   <<Words({<<"taboo">>, <<"forbidden">>, <<"offensive">>, <<"rude">>,
            <<"polite">>, <<"courtesy">>, <<"respect">>})>>,
   <<Words({<<"dress", "code">>, <<"conservative">>, <<"modest">>, <<"formal">>,
            <<"casual">>})>>,
   <<Words({<<"local", "customs">>, <<"local", "way">>, <<"how", "locals">>,
            <<"local", "culture">>, <<"authentic">>, <<"genuine">>})>>,
   <<Words({<<"social", "norms">>, <<"cultural", "norms">>, <<"expectations">>,
            <<"behavior">>})>>
  >>

PRACTICAL_ADVICE_PATTERNS ==
  <<
   <<Words({<<"visa">>, <<"passport">>, <<"documents">>, <<"paperwork">>,
            <<"requirements">>, <<"permit">>, <<"authorization">>})>>,
   <<Words({<<"ID">>, <<"identification">>, <<"travel", "documents">>,
            <<"embassy">>, <<"consulate">>})>>,
   <<Words({<<"transportation">>, <<"transport">>, <<"getting", "around">>,
            <<"how", "to", "get">>, <<"travel", "within">>})>>,
   <<Words({<<"airport">>, <<"train">>, <<"bus">>, <<"metro">>, <<"subway">>,
            <<"taxi">>, <<"uber">>, <<"rental", "car">>, <<"public", "transport">>})>>,
   <<Words({<<"flights">>, <<"airlines">>, <<"booking">>, <<"tickets">>,
            <<"connections">>, <<"layover">>})>>,
   <<Words({<<"safety">>, <<"safe">>, <<"secure">>, <<"dangerous">>, <<"risky">>,
            <<"crime">>, <<"scam">>, <<"theft">>, <<"pickpocket">>})>>,
   <<Words({<<"emergency">>, <<"help">>, <<"police">>, <<"hospital">>,
            <<"insurance">>, <<"medical">>})>>,
   <<Words({<<"precautions">>, <<"careful">>, <<"aware">>, <<"avoid">>,
            <<"sketchy">>, <<"unsafe">>})>>,
   <<Words({<<"money">>, <<"currency">>, <<"exchange">>, <<"ATM">>, <<"bank">>,
            <<"credit", "card">>, <<"cash">>, <<"payment">>})>>,
   <<Words({<<"tip">>, <<"tipping">>, <<"gratuity">>, <<"service", "charge">>,
            <<"tax">>})>>,
   <<Words({<<"internet">>, <<"wifi">>, <<"phone">>, <<"sim", "card">>, <<"data">>,
            <<"roaming">>, <<"calling">>})>>,
   <<Words({<<"plug">>, <<"adapter">>, <<"voltage">>, <<"charger">>,
            <<"electronics">>})>>,
   <<Words({<<"hotel">>, <<"hostel">>, <<"airbnb">>, <<"accommodation">>,
            <<"where", "to", "stay">>, <<"booking">>, <<"reservation">>})>>,
   <<Words({<<"shots">>, <<"vaccination">>, <<"immunization">>, <<"health">>,
            <<"medical">>, <<"water">>, <<"food", "safety">>})>>,
   <<Words({<<"what", "to", "watch", "out", "for">>, <<"scams">>, <<"avoid">>,
            <<"careful">>, <<"sketchy">>})>>
  >>

BUDGET_PLANNING_PATTERNS ==
  <<
   <<Words({<<"cost">>, <<"costs">>, <<"price">>, <<"prices">>, <<"expensive">>,
            <<"cheap">>, <<"affordable">>, <<"budget">>, <<"money">>})>>,
   <<Words({<<"how", "much">>, <<"spend">>, <<"spending">>, <<"expense">>,
            <<"financial">>, <<"economical">>})>>,
   <<Words({<<"dollars">>, <<"euros">>, <<"pounds">>, <<"yen">>, <<"currency">>,
            <<"exchange", "rate">>})>>,
   <<Words({<<"budget">>, <<"budgeting">>, <<"financial", "planning">>,
            <<"cost", "breakdown">>, <<"estimate">>})>>,
   <<Words({<<"daily", "cost">>, <<"per", "day">>, <<"weekly">>, <<"monthly">>,
            <<"total", "cost">>})>>,
   <<Words({<<"save", "money">>, <<"cut", "costs">>, <<"economical">>,
            <<"frugal">>, <<"backpacker">>, <<"luxury">>})>>,
   <<Words({<<"food", "cost">>, <<"meal", "prices">>, <<"restaurant", "prices">>,
            <<"street", "food">>})>>,
   <<Words({<<"accommodation", "cost">>, <<"hotel", "prices">>,
            <<"hostel", "prices">>})>>,
   <<Words({<<"transport", "cost">>, <<"flight", "cost">>, <<"train", "prices">>,
            <<"bus", "fares">>})>>,
   <<Words({<<"attraction", "prices">>, <<"museum", "fees">>, <<"tour", "costs">>,
            <<"activity", "prices">>})>>,
   <<Words({<<"worth", "it">>, <<"value">>, <<"bang", "for", "buck">>,
            <<"overpriced">>, <<"reasonable">>, <<"fair", "price">>})>>,
   <<Words({<<"compare", "costs">>, <<"cheaper", "alternative">>,
            <<"budget", "option">>, <<"splurge">>})>>,
   <<Words({<<"break", "the", "bank">>, <<"damage">>, <<"pricey">>,
            <<"dirt", "cheap">>, <<"costs", "a", "fortune">>})>>,
   <<Words({<<"on", "a", "dime">>, <<"shoestring">>, <<"tight", "budget">>,
            <<"money", "tight">>})>>
  >>

PACKING_HELP_PATTERNS ==
  <<
   <<Words({<<"pack">>, <<"packing">>, <<"bring">>, <<"take">>, <<"luggage">>,
            <<"suitcase">>, <<"backpack">>, <<"bag">>})>>,
   <<Words({<<"what", "to", "pack">>, <<"packing", "list">>, <<"essentials">>,
            <<"must", "bring">>, <<"necessary">>})>>,
   <<Words({<<"clothes">>, <<"clothing">>, <<"outfit">>, <<"dress">>, <<"wear">>,
            <<"wardrobe">>})>>,
   <<Words({<<"shirts">>, <<"pants">>, <<"dress">>, <<"jacket">>, <<"coat">>,
            <<"shoes">>, <<"sandals">>, <<"boots">>})>>,
   <<Words({<<"underwear">>, <<"socks">>, <<"pajamas">>, <<"swimwear">>,
            <<"formal">>, <<"casual">>})>>,
   <<Words({<<"toiletries">>, <<"cosmetics">>, <<"shampoo">>, <<"toothbrush">>,
            <<"medication">>})>>,
   <<Words({<<"camera">>, <<"charger">>, <<"adapter">>, <<"electronics">>,
            <<"phone">>, <<"laptop">>})>>,
   <<Words({<<"documents">>, <<"passport">>, <<"tickets">>, <<"insurance">>,
            <<"copies">>})>>,
   <<Words({<<"light">>, <<"minimal">>, <<"overpacking">>, <<"weight", "limit">>,
            <<"carry", "on">>, <<"checked">>})>>,
   <<Words({<<"forgot">>, <<"forgotten">>, <<"leave", "behind">>,
            <<"don", "t", "need">>, <<"unnecessary">>})>>,
   <<Words({<<"warm", "weather">>, <<"cold", "weather">>, <<"tropical">>,
            <<"winter", "gear">>, <<"summer", "clothes">>})>>,
   <<Words({<<"gear">>, <<"equipment">>, <<"essentials">>, <<"must", "have">>,
            <<"need">>})>>
  >>
\* the keys of INTENT_PATTERNS in the order the dictionary lists them
INTENT_ORDER ==
  <<DESTINATION_INQUIRY, ACTIVITY_REQUEST, WEATHER_CHECK, CULTURAL_INFO,
    PRACTICAL_ADVICE, BUDGET_PLANNING, PACKING_HELP>>

INTENT_PATTERNS ==
  DESTINATION_INQUIRY :> DESTINATION_INQUIRY_PATTERNS @@
  ACTIVITY_REQUEST :> ACTIVITY_REQUEST_PATTERNS @@
  WEATHER_CHECK :> WEATHER_CHECK_PATTERNS @@
  CULTURAL_INFO :> CULTURAL_INFO_PATTERNS @@
  PRACTICAL_ADVICE :> PRACTICAL_ADVICE_PATTERNS @@
  BUDGET_PLANNING :> BUDGET_PLANNING_PATTERNS @@
  PACKING_HELP :> PACKING_HELP_PATTERNS

MONTHS ==
  {<<"january">>, <<"february">>, <<"march">>, <<"april">>, <<"may">>,
   <<"june">>, <<"july">>, <<"august">>, <<"september">>, <<"october">>,
   <<"november">>, <<"december">>}

implicit_weather_patterns ==
  <<
   <<Words({<<"weather">>})>>,
   <<Words({<<"how", "s">>}), Words({<<"there">>})>>,
   <<Words({<<"temperature">>})>>,
   <<Words({<<"cold">>})>>,
   <<Words({<<"hot">>})>>,
   <<Words({<<"warm">>})>>,
   <<Words({<<"rain">>})>>,
   <<Words({<<"sunny">>})>>,
   <<PrefixOf({<<"what", "s">>}), SuffixOf({<<"like">>}), Words({<<"there">>})>>,
   <<Words({<<"climate">>})>>,
   <<Words(MONTHS)>>,
   <<PrefixOf({<<"weather">>}), SuffixOf({<<"in">>}), Words(MONTHS)>>
  >>

implicit_activity_patterns ==
  <<
   <<Words({<<"there">>})>>,
   <<PrefixOf({<<"what">>}), SuffixOf({<<"do">>})>>,
   <<Words({<<"good">>})>>,
   <<Words({<<"best">>})>>,
   <<Words({<<"recommend">>})>>,
   <<Words({<<"suggestion">>})>>,
   <<Words({<<"visit">>})>>
  >>

\* for pattern in patterns: if re.search(pattern, text): ...; break
SearchAny(patterns, text) ==
  \E k \in 1..Len(patterns) : Search(patterns[k], text)

\* the intents a message matches explicitly, in the order they are appended
RECURSIVE explicit_intents(_, _)
explicit_intents(message_lower, k) ==
  IF k > Len(INTENT_ORDER) THEN <<>>
  ELSE (IF SearchAny(INTENT_PATTERNS[INTENT_ORDER[k]], message_lower)
        THEN <<INTENT_ORDER[k]>> ELSE <<>>)
       \o explicit_intents(message_lower, k + 1)

Range(seq) == {seq[i] : i \in 1..Len(seq)}

\* every text of the model
TEXTS ==
  {M_EMPTY, M_HMM, M_TOKYO, M_WEATHER, M_PARIS, M_PARIS_LOWER, M_LANDSCAPE, M_PACK,
   M_LONDON, M_ROME, M_OSLO, M_VISIT_TOKYO, M_ICELAND, M_ANGRY, M_CONFUSING,
   M_HOTEL, M_SAFE, M_SAFE_THERE}

\* a function over a finite set as the table of its values, computed once
Tabulated(f) == f @@ [x \in {} |-> <<>>]

\* the three pattern loops of detect_intents, evaluated once for each text
PatternMatches ==
  Tabulated(
    [message \in TEXTS |->
       LET message_lower == LowerText(message) IN
       [explicit |-> explicit_intents(message_lower, 1),
        implicit_weather |-> SearchAny(implicit_weather_patterns, message_lower),
        implicit_activity |-> SearchAny(implicit_activity_patterns, message_lower)]])

\* the implicit weather pass: WEATHER_CHECK is appended when a destination is
\* established, no WEATHER_CHECK was detected and a weather pattern matches
implicit_weather(intents, established, matches) ==
  IF /\ established
     /\ (intents = <<>> \/ WEATHER_CHECK \notin Range(intents))
     /\ matches.implicit_weather
  THEN Append(intents, WEATHER_CHECK) ELSE intents

\* the implicit activity pass: only when nothing was detected so far
implicit_activity(intents, established, matches) ==
  IF established /\ intents = <<>> /\ matches.implicit_activity
  THEN Append(intents, ACTIVITY_REQUEST) ELSE intents

\* context_enhancement without its branch: the established destination is
\* not looked at when nothing was detected
context_enhancement_skipped(intents, established) == intents

\* a destination is known but no intent is clear: assume an activity request
context_enhancement(intents, established) ==
  IF established /\ intents = <<>> THEN <<ACTIVITY_REQUEST>> ELSE intents

\* default_intent without its branch: an empty list is returned as it is
default_intent_skipped(intents) == intents

\* default to destination inquiry if no intents detected
default_intent(intents) ==
  IF intents = <<>> THEN <<DESTINATION_INQUIRY>> ELSE intents

\* the passes of detect_intents that follow the explicit patterns
detected_after(matches, established) ==
  default_intent(
    context_enhancement(
      implicit_activity(
        implicit_weather(matches.explicit, established, matches),
        established, matches),
      established))

\* the list `detected` of detect_intents before duplicates are removed
detected(message, context) ==
  detected_after(PatternMatches[message], context.current_destination # None)

\* the orders in which list(set(...)) can return the elements of a list:
\* the iteration order of a set of enum members follows their hashes,
\* which differ from one interpreter run to the next
Orders(S) ==
  {f \in [1..Cardinality(S) -> S] : \A i, j \in DOMAIN f : i # j => f[i] # f[j]}

ListOfSet(seq) == Orders(Range(seq))

\* the lists detect_intents(message, context) can return
detect_intents(message, context) == ListOfSet(detected(message, context))

-----------------------------------------------------------------------------
(* ContextExtractor *)

TEMPORAL_WORDS ==
  {"before", "after", "while", "when", "if", "unless", "during",
   "since", "until"}

(* A destination pattern: an optional trigger phrase (pre), a capture of   *)
(* 1..max words, each [A-Z][a-z]+ under re.IGNORECASE, that no word of     *)
(* excl may follow (the negative lookahead), and for some patterns a       *)
(* phrase (post) and a second capture of 1..max2 words.                    *)
DESTINATION_PATTERNS ==
  <<
   [pre |-> {<<"visit">>, <<"visiting">>, <<"go", "to">>, <<"going", "to">>,
             <<"traveling", "to">>, <<"trip", "to">>, <<"fly", "to">>,
             <<"heading", "to">>, <<"bound", "for">>},
    max |-> 3, excl |-> TEMPORAL_WORDS, post |-> {}, max2 |-> 0],
   [pre |-> {<<"from">>, <<"leaving">>},
    max |-> 2, excl |-> {}, post |-> {<<"to">>, <<"for">>}, max2 |-> 2],
   [pre |-> {<<"in">>, <<"at">>, <<"around">>, <<"near">>},
    max |-> 2, excl |-> TEMPORAL_WORDS \cup {"order", "case", "time", "general"},
    post |-> {}, max2 |-> 0],
   [pre |-> {<<"about">>},
    max |-> 2, excl |-> TEMPORAL_WORDS \cup {"time", "it", "that", "this"},
    post |-> {}, max2 |-> 0],
   [pre |-> {<<"how", "s">>},
    max |-> 2,
    excl |-> {"before", "after", "while", "when", "going", "doing", "working"},
    post |-> {}, max2 |-> 0],
   [pre |-> {},
    max |-> 2, excl |-> {},
    post |-> {<<"s", "weather">>, <<"s", "climate">>, <<"s", "food">>,
              <<"s", "culture">>, <<"s", "people">>, <<"s", "attractions">>,
              <<"s", "museums">>, <<"s", "restaurants">>, <<"s", "nightlife">>,
              <<"s", "beaches">>, <<"s", "mountains">>, <<"s", "history">>,
              <<"s", "customs">>, <<"s", "traditions">>},
    max2 |-> 0],
   [pre |-> {<<"than">>, <<"versus">>, <<"vs">>, <<"compared", "to">>},
    max |-> 2, excl |-> {}, post |-> {}, max2 |-> 0],
   [pre |-> {},
    max |-> 2, excl |-> {}, post |-> {<<"vs">>, <<"versus">>}, max2 |-> 2],
   [pre |-> {},
    max |-> 2, excl |-> {},
    post |-> {<<"trip">>, <<"vacation">>, <<"journey">>, <<"adventure">>,
              <<"getaway">>},
    max2 |-> 0],
   [pre |-> {<<"through">>, <<"across">>},
    max |-> 2, excl |-> {}, post |-> {}, max2 |-> 0]
  >>

\* [A-Z][a-z]+ under re.IGNORECASE: a word of two letters or more
IsCapWord(w) == w \notin ONE_CHAR_TOKENS

\* the n words from i on are all capture words
CapWordsAt(text, i, n) ==
  /\ n >= 1
  /\ i + n - 1 <= Len(text)
  /\ \A k \in 0..(n - 1) : IsCapWord(text[i + k])

\* (?!\s+(?:w1|w2|...)): the word at j does not start with a word of excl
LookaheadOk(text, j, excl) ==
  j > Len(text) \/ ~\E e \in excl : StartsWith(Lower(text[j]), e)

Max(S) == CHOOSE x \in S : \A y \in S : y <= x

Min(S) == CHOOSE x \in S : \A y \in S : x <= y

SubText(text, i, n) == [k \in 1..n |-> text[i + k - 1]]

NoMatch == [caps |-> <<>>, end |-> 0]

\* the words at which the first capture can start when the match starts at
\* word i: after the trigger phrase of p, if it has one
CaptureStarts(p, lower, i) ==
  IF p.pre = {} THEN {i}
  ELSE {i + Len(q) : q \in {q \in p.pre : PartAt(lower, Words({q}), q, i)}}

\* what must follow a first capture that ends before word j
RestAt(p, text, lower, j) ==
  IF p.post = {} THEN LookaheadOk(text, j, p.excl)
  ELSE \E q \in p.post :
         /\ PartAt(lower, Words({q}), q, j)
         /\ p.max2 = 0 \/ CapWordsAt(text, j + Len(q), 1)

\* the lengths the first capture can take when it starts at word c1
CaptureLens(p, text, lower, c1) ==
  {n1 \in 1..p.max : CapWordsAt(text, c1, n1) /\ RestAt(p, text, lower, c1 + n1)}

\* the second capture, greedy, from word c2 on
SecondCapture(p, text, cap1, c2) ==
  IF p.max2 = 0 THEN [caps |-> <<cap1>>, end |-> c2]
  ELSE [caps |-> <<cap1, SubText(text, c2,
                         Max({n \in 1..p.max2 : CapWordsAt(text, c2, n)}))>>,
        end |-> c2 + Max({n \in 1..p.max2 : CapWordsAt(text, c2, n)})]

\* the match whose first capture is the words j - n1 .. j - 1
Captured(p, text, lower, cap1, j) ==
  IF p.post = {} THEN [caps |-> <<cap1>>, end |-> j]
  ELSE SecondCapture(p, text, cap1,
         j + Len(CHOOSE q \in p.post : PartAt(lower, Words({q}), q, j)))

\* the first capture is greedy: the longest of the lengths it can take
LongestCapture(p, text, lower, c1, lens) ==
  IF lens = {} THEN NoMatch
  ELSE Captured(p, text, lower, SubText(text, c1, Max(lens)), c1 + Max(lens))

CaptureFrom(p, text, lower, starts) ==
  IF starts = {} THEN NoMatch
  ELSE LongestCapture(p, text, lower, Max(starts),
                      CaptureLens(p, text, lower, Max(starts)))

\* the match of pattern p that starts at word i: its captures and the word
\* after it, or end = 0 when there is none
MatchDestAt(p, text, lower, i) ==
  CaptureFrom(p, text, lower, CaptureStarts(p, lower, i))

\* re.findall(pattern, text, re.IGNORECASE): the captures of the matches,
\* left to right, each match starting where the one before it ended
RECURSIVE FindAll(_, _, _, _)
FindAllAfter(p, text, lower, i, m) ==
  IF m.end = 0 THEN FindAll(p, text, lower, i + 1)
  ELSE m.caps \o FindAll(p, text, lower, m.end)

FindAll(p, text, lower, i) ==
  IF i > Len(text) THEN <<>>
  ELSE FindAllAfter(p, text, lower, i, MatchDestAt(p, text, lower, i))

RECURSIVE raw_destinations(_, _, _)
raw_destinations(message, message_lower, k) ==
  IF k > Len(DESTINATION_PATTERNS) THEN <<>>
  ELSE FindAll(DESTINATION_PATTERNS[k], message, message_lower, 1)
       \o raw_destinations(message, message_lower, k + 1)
false_positives ==
  {<<"trip">>, <<"travel">>, <<"vacation">>, <<"visit">>, <<"going">>,
   <<"planning">>, <<"to">>, <<"in">>, <<"at">>, <<"from">>, <<"the">>,
   <<"and">>, <<"or">>, <<"but">>, <<"with">>, <<"like">>, <<"about">>,
   <<"what">>, <<"how">>, <<"when">>, <<"where">>, <<"pack">>, <<"weather">>,
   <<"best">>, <<"season">>, <<"time">>, <<"good">>, <<"great">>, <<"nice">>,
   <<"beautiful">>, <<"there">>, <<"here">>, <<"place">>, <<"places">>,
   <<"destination">>, <<"country">>, <<"city">>, <<"area">>, <<"monday">>,
   <<"tuesday">>, <<"wednesday">>, <<"thursday">>, <<"friday">>,
   <<"saturday">>, <<"sunday">>, <<"january">>, <<"february">>, <<"march">>,
   <<"april">>, <<"may">>, <<"june">>, <<"july">>, <<"august">>,
   <<"september">>, <<"october">>, <<"november">>, <<"december">>,
   <<"today">>, <<"tomorrow">>, <<"yesterday">>, <<"amazing">>,
   <<"incredible">>, <<"wonderful">>, <<"terrible">>, <<"expensive">>,
   <<"cheap">>, <<"hot">>, <<"cold">>, <<"people">>, <<"person">>,
   <<"family">>, <<"friend">>, <<"hotel">>, <<"restaurant">>, <<"museum">>,
   <<"beach">>, <<"instagram">>, <<"facebook">>, <<"google">>, <<"youtube">>,
   <<"reddit">>, <<"twitter">>, <<"money">>, <<"cost">>, <<"price">>,
   <<"budget">>, <<"food">>, <<"culture">>, <<"language">>, <<"airport">>,
   <<"flight">>, <<"train">>, <<"bus">>, <<"car">>, <<"taxi">>, <<"uber">>,
   <<"hostel">>, <<"airbnb">>, <<"first", "solo">>, <<"solo", "trip">>,
   <<"solo", "travel">>, <<"first", "time">>, <<"next", "adventure">>,
   <<"adventure", "trip">>, <<"photography", "trip">>,
   <<"landscape", "photography">>, <<"northern", "lights">>,
   <<"my", "trip">>, <<"my", "vacation">>, <<"my", "travel">>,
   <<"group", "trip">>, <<"family", "trip">>}

travel_phrases ==
  {<<"first", "solo">>, <<"solo", "trip">>, <<"solo", "travel">>,
   <<"first", "time">>, <<"next", "adventure">>, <<"adventure", "trip">>,
   <<"photography", "trip">>, <<"landscape", "photography">>,
   <<"northern", "lights">>, <<"my", "trip">>, <<"my", "vacation">>,
   <<"my", "travel">>, <<"group", "trip">>, <<"family", "trip">>,
   <<"bucket", "list">>, <<"dream", "destination">>, <<"perfect", "place">>}

\* the nested is_likely_destination(dest) of extract_destinations
likely_destination(dest, dest_lower) ==
  IF dest_lower \in false_positives THEN FALSE
  ELSE IF AnyInText(travel_phrases, dest_lower) THEN FALSE
  ELSE IF Len(dest) = 1 /\ dest[1] \in ONE_CHAR_TOKENS \cup TWO_CHAR_TOKENS
    THEN FALSE                                   \* len(dest_lower) < 3
  ELSE IF /\ Len(dest) > 1
          /\ dest_lower[1] \in {"the", "a", "an", "my", "your", "our",
                                "their", "first", "next", "last"}
    THEN FALSE
  ELSE IF dest = dest_lower THEN FALSE           \* all lower case
  ELSE IF dest[1] # TitleWord(dest[1]) THEN FALSE \* not dest[0].isupper()
  ELSE TRUE  \* with or without a travel word nearby

is_likely_destination(dest) == likely_destination(dest, LowerText(dest))

\* the words of text at which the phrase starts (none: str.find is -1)
FindAt(text, phrase) ==
  {i \in 1..Len(text) : PartAt(text, Substring({phrase}), phrase, i)}

exclusion_words ==
  {<<"before">>, <<"after">>, <<"while">>, <<"when">>, <<"if">>, <<"unless">>,
   <<"during">>, <<"since">>, <<"until">>, <<"and", "then">>, <<"or">>,
   <<"but">>, <<"however">>, <<"in", "order">>, <<"in", "case">>,
   <<"in", "time">>, <<"in", "general">>}

\* the tests on the text around the destination found at word dest_pos,
\* after_dest_pos being the first word after it
validate_around(message_lower, dest_pos, after_dest_pos) ==
  IF \E word \in exclusion_words :  \* after_context.startswith(word)
       PartAt(message_lower, PrefixOf({word}), word, after_dest_pos)
  THEN FALSE
  ELSE IF /\ \E word \in {<<"about">>, <<"like">>, <<"such", "as">>,
                          <<"including">>} :  \* before_context.endswith(...)
               PartAt(message_lower, SuffixOf({word}), word, dest_pos - Len(word))
          /\ ~AnyInText({<<"visit">>, <<"travel">>, <<"trip">>, <<"vacation">>,
                         <<"customs">>, <<"culture">>}, message_lower)
    THEN FALSE
  ELSE TRUE

validate_found(dest_lower, message_lower, found) ==
  IF found = {} THEN FALSE
  ELSE validate_around(message_lower, Min(found), Min(found) + Len(dest_lower))

validate_lower(dest_lower, message_lower) ==
  validate_found(dest_lower, message_lower, FindAt(message_lower, dest_lower))

_validate_destination_context(destination, original_message) ==
  validate_lower(LowerText(destination), LowerText(original_message))

InSeq(x, seq) == \E i \in 1..Len(seq) : seq[i] = x

\* one turn of the loop that cleans and deduplicates the raw candidates
clean_one(clean_destinations, dest_clean, message_lower) ==
  IF /\ validate_lower(LowerText(dest_clean), message_lower)
     /\ is_likely_destination(dest_clean)
     /\ ~InSeq(dest_clean, clean_destinations)
  THEN Append(clean_destinations, dest_clean)
  ELSE clean_destinations

RECURSIVE clean_from(_, _, _, _)
clean_from(destinations, k, message_lower, clean_destinations) ==
  IF k > Len(destinations) THEN clean_destinations
  ELSE clean_from(destinations, k + 1, message_lower,
                  clean_one(clean_destinations, TitleText(destinations[k]),
                            message_lower))

\* clean_destinations[:5]
FirstFive(list) == SubSeq(list, 1, IF Len(list) < 5 THEN Len(list) ELSE 5)

destinations_of(message, message_lower) ==
  FirstFive(clean_from(raw_destinations(message, message_lower, 1), 1,
                       message_lower, <<>>))

\* extract_destinations(message), evaluated once for each text
Destinations ==
  Tabulated(
    [message \in TEXTS |-> destinations_of(message, LowerText(message))])

extract_destinations(message) == Destinations[message]
\* BUDGET_PATTERNS[3]; the three patterns before it need a digit, and no
\* word of the vocabulary has one
BUDGET_WORDS ==
  <<<<"cheap">>, <<"budget">>, <<"luxury">>, <<"expensive">>,
    <<"mid", "range">>, <<"affordable">>>>

\* the alternative k of the pattern matches at word i
BudgetHit(lower, i, k) ==
  PartAt(lower, Substring({BUDGET_WORDS[k]}), BUDGET_WORDS[k], i)

\* match.group(): a whole word is returned as the message wrote it
budget_group(message, lower, i, k) ==
  IF Len(BUDGET_WORDS[k]) = 1 /\ lower[i] = BUDGET_WORDS[k][1]
  THEN <<message[i]>> ELSE BUDGET_WORDS[k]

\* the leftmost match, and at that word the first alternative that matches
budget_found(message, lower, at) ==
  IF at = {} THEN None
  ELSE budget_group(message, lower, Min(at),
                    Min({k \in 1..Len(BUDGET_WORDS) : BudgetHit(lower, Min(at), k)}))

budget_match(message, lower) ==
  budget_found(message, lower,
    {i \in 1..Len(message) : \E k \in 1..Len(BUDGET_WORDS) : BudgetHit(lower, i, k)})

\* DATE_PATTERNS[2] and DATE_PATTERNS[3]; the two patterns before them
\* need a digit
DATE_PATTERNS ==
  <<
   {<<a, b>> : a \in {"next", "this"},
               b \in {"week", "month", "year", "spring", "summer", "fall",
                      "autumn", "winter"}},
   {<<a, b[1]>> : a \in {"in", "during"}, b \in MONTHS}
  >>

\* the words at which pattern k matches
DateHits(lower, k) ==
  {i \in 1..Len(lower) : \E ph \in DATE_PATTERNS[k] : PartAt(lower, PrefixOf({ph}), ph, i)}

\* None, or the matched text and the index of the pattern that matched
dates_found(message, lower, ks) ==
  IF ks = {} THEN None
  ELSE <<SubText(message, Min(DateHits(lower, Min(ks))), 2), Min(ks) + 2>>

dates_match(message, lower) ==
  dates_found(message, lower,
              {k \in 1..Len(DATE_PATTERNS) : DateHits(lower, k) # {}})

interest_keywords ==
  <<
   <<"museums", {"museum", "art", "gallery", "culture", "history"}>>,
   <<"food", {"restaurant", "food", "cuisine", "dining", "eat"}>>,
   <<"nightlife", {"nightlife", "bar", "club", "party", "drink"}>>,
   <<"nature", {"nature", "park", "hiking", "outdoor", "beach", "mountain"}>>,
   <<"shopping", {"shopping", "market", "shop", "buy", "souvenir"}>>,
   <<"architecture", {"architecture", "building", "church", "temple", "monument"}>>,
   <<"couples", {"couple", "romantic", "honeymoon", "date"}>>,
   <<"family", {"family", "kids", "children", "child"}>>,
   <<"adventure", {"adventure", "extreme", "thrill", "adrenaline"}>>
  >>

RECURSIVE interests_from(_, _)
interests_from(message_lower, k) ==
  IF k > Len(interest_keywords) THEN <<>>
  ELSE (IF \E kw \in interest_keywords[k][2] : InText(<<kw>>, message_lower)
        THEN <<interest_keywords[k][1]>> ELSE <<>>)
       \o interests_from(message_lower, k + 1)

\* _extract_interests, extract_budget_info and extract_dates, evaluated once
\* for each text
Extracted ==
  Tabulated(
    [message \in TEXTS |->
       [interests |-> interests_from(LowerText(message), 1),
        budget |-> budget_match(message, LowerText(message)),
        dates |-> dates_match(message, LowerText(message))]])

_extract_interests(message) == Extracted[message].interests

extract_budget_info(message) == Extracted[message].budget

extract_dates(message) == Extracted[message].dates

\* for interest in interests: if interest not in list: list.append(interest)
RECURSIVE AppendNew(_, _, _)
AppendNew(list, items, k) ==
  IF k > Len(items) THEN list
  ELSE AppendNew(IF InSeq(items[k], list) THEN list ELSE Append(list, items[k]),
                 items, k + 1)

\* track_destination without the test "not in context.previous_destinations"
track_destination_appending(context, destinations) ==
  IF destinations = <<>> THEN context
  ELSE [context EXCEPT
          !.previous_destinations =
            IF /\ context.current_destination # None
               /\ context.current_destination # destinations[1]
            THEN Append(@, context.current_destination) ELSE @,
          !.current_destination = destinations[1]]

\* the destination part of update_context
track_destination(context, destinations) ==
  IF destinations = <<>> THEN context
  ELSE [context EXCEPT
          !.previous_destinations =
            IF /\ context.current_destination # None
               /\ context.current_destination # destinations[1]
               /\ ~InSeq(context.current_destination, @)
            THEN Append(@, context.current_destination) ELSE @,
          !.current_destination = destinations[1]]

\* if value: field = value
SetIf(value, field) == IF value # None THEN value ELSE field

\* update_context that counts only the messages that name a destination
update_context_counting_destinations(context, message) ==
  [track_destination(context, extract_destinations(message)) EXCEPT
     !.budget_range = SetIf(extract_budget_info(message), @),
     !.travel_dates = SetIf(extract_dates(message), @),
     !.interests = AppendNew(@, _extract_interests(message), 1),
     !.conversation_depth =
       IF extract_destinations(message) = <<>> THEN @ ELSE @ + 1]

update_context(context, message) ==
  [track_destination(context, extract_destinations(message)) EXCEPT
     !.budget_range = SetIf(extract_budget_info(message), @),
     !.travel_dates = SetIf(extract_dates(message), @),
     !.interests = AppendNew(@, _extract_interests(message), 1),
     !.conversation_depth = @ + 1]

-----------------------------------------------------------------------------
(* StateManager *)

STATE_TRANSITIONS ==
  GREETING :>
    (DESTINATION_INQUIRY :> DESTINATION_PLANNING @@
     ACTIVITY_REQUEST :> ACTIVITY_DISCOVERY @@
     PRACTICAL_ADVICE :> PRACTICAL_PLANNING) @@
  DESTINATION_PLANNING :>
    (ACTIVITY_REQUEST :> ACTIVITY_DISCOVERY @@
     WEATHER_CHECK :> CONTEXT_ENRICHMENT @@
     CULTURAL_INFO :> CONTEXT_ENRICHMENT @@
     PRACTICAL_ADVICE :> PRACTICAL_PLANNING) @@
  ACTIVITY_DISCOVERY :>
    (DESTINATION_INQUIRY :> RECOMMENDATION_REFINEMENT @@
     PRACTICAL_ADVICE :> PRACTICAL_PLANNING @@
     WEATHER_CHECK :> CONTEXT_ENRICHMENT) @@
  PRACTICAL_PLANNING :>
    (ACTIVITY_REQUEST :> ACTIVITY_DISCOVERY @@
     DESTINATION_INQUIRY :> RECOMMENDATION_REFINEMENT) @@
  CONTEXT_ENRICHMENT :>
    (ACTIVITY_REQUEST :> ACTIVITY_DISCOVERY @@
     DESTINATION_INQUIRY :> RECOMMENDATION_REFINEMENT) @@
  RECOMMENDATION_REFINEMENT :> <<>>

DEPTH_OVERRIDE == 8

\* determine_next_state whose last fallback returns the intent it was given
\* where a state is expected
determine_next_state_unmapped(current_state, intents, context) ==
  IF intents = <<>> THEN current_state
  ELSE IF /\ current_state \in DOMAIN STATE_TRANSITIONS
          /\ intents[1] \in DOMAIN STATE_TRANSITIONS[current_state]
    THEN STATE_TRANSITIONS[current_state][intents[1]]
  ELSE IF context.conversation_depth > DEPTH_OVERRIDE
    THEN RECOMMENDATION_REFINEMENT
  ELSE IF intents[1] = DESTINATION_INQUIRY THEN DESTINATION_PLANNING
  ELSE IF intents[1] = ACTIVITY_REQUEST THEN ACTIVITY_DISCOVERY
  ELSE IF intents[1] \in {PRACTICAL_ADVICE, BUDGET_PLANNING}
    THEN PRACTICAL_PLANNING
  ELSE intents[1]

\* determine_next_state whose depth override starts at the eighth message
determine_next_state_override_from_8(current_state, intents, context) ==
  IF intents = <<>> THEN current_state
  ELSE IF /\ current_state \in DOMAIN STATE_TRANSITIONS
          /\ intents[1] \in DOMAIN STATE_TRANSITIONS[current_state]
    THEN STATE_TRANSITIONS[current_state][intents[1]]
  ELSE IF context.conversation_depth >= DEPTH_OVERRIDE
    THEN RECOMMENDATION_REFINEMENT
  ELSE IF intents[1] = DESTINATION_INQUIRY THEN DESTINATION_PLANNING
  ELSE IF intents[1] = ACTIVITY_REQUEST THEN ACTIVITY_DISCOVERY
  ELSE IF intents[1] \in {PRACTICAL_ADVICE, BUDGET_PLANNING}
    THEN PRACTICAL_PLANNING
  ELSE CONTEXT_ENRICHMENT

\* determine_next_state that looks at the depth before it looks at the table
determine_next_state_override_first(current_state, intents, context) ==
  IF intents = <<>> THEN current_state
  ELSE IF context.conversation_depth > DEPTH_OVERRIDE
    THEN RECOMMENDATION_REFINEMENT
  ELSE IF /\ current_state \in DOMAIN STATE_TRANSITIONS
          /\ intents[1] \in DOMAIN STATE_TRANSITIONS[current_state]
    THEN STATE_TRANSITIONS[current_state][intents[1]]
  ELSE IF intents[1] = DESTINATION_INQUIRY THEN DESTINATION_PLANNING
  ELSE IF intents[1] = ACTIVITY_REQUEST THEN ACTIVITY_DISCOVERY
  ELSE IF intents[1] \in {PRACTICAL_ADVICE, BUDGET_PLANNING}
    THEN PRACTICAL_PLANNING
  ELSE CONTEXT_ENRICHMENT

\* determine_next_state that stays in the current state where no rule names
\* a state for the intent
determine_next_state_staying(current_state, intents, context) ==
  IF intents = <<>> THEN current_state
  ELSE IF /\ current_state \in DOMAIN STATE_TRANSITIONS
          /\ intents[1] \in DOMAIN STATE_TRANSITIONS[current_state]
    THEN STATE_TRANSITIONS[current_state][intents[1]]
  ELSE IF context.conversation_depth > DEPTH_OVERRIDE
    THEN RECOMMENDATION_REFINEMENT
  ELSE IF intents[1] = DESTINATION_INQUIRY THEN DESTINATION_PLANNING
  ELSE IF intents[1] = ACTIVITY_REQUEST THEN ACTIVITY_DISCOVERY
  ELSE IF intents[1] \in {PRACTICAL_ADVICE, BUDGET_PLANNING}
    THEN PRACTICAL_PLANNING
  ELSE current_state

\* determine_next_state without the override of the deep conversations
determine_next_state_without_override(current_state, intents, context) ==
  IF intents = <<>> THEN current_state
  ELSE IF /\ current_state \in DOMAIN STATE_TRANSITIONS
          /\ intents[1] \in DOMAIN STATE_TRANSITIONS[current_state]
    THEN STATE_TRANSITIONS[current_state][intents[1]]
  ELSE IF intents[1] = DESTINATION_INQUIRY THEN DESTINATION_PLANNING
  ELSE IF intents[1] = ACTIVITY_REQUEST THEN ACTIVITY_DISCOVERY
  ELSE IF intents[1] \in {PRACTICAL_ADVICE, BUDGET_PLANNING}
    THEN PRACTICAL_PLANNING
  ELSE CONTEXT_ENRICHMENT

determine_next_state(current_state, intents, context) ==
  IF intents = <<>> THEN current_state
  ELSE IF /\ current_state \in DOMAIN STATE_TRANSITIONS
          /\ intents[1] \in DOMAIN STATE_TRANSITIONS[current_state]
    THEN STATE_TRANSITIONS[current_state][intents[1]]
  ELSE IF context.conversation_depth > DEPTH_OVERRIDE
    THEN RECOMMENDATION_REFINEMENT
  ELSE IF intents[1] = DESTINATION_INQUIRY THEN DESTINATION_PLANNING
  ELSE IF intents[1] = ACTIVITY_REQUEST THEN ACTIVITY_DISCOVERY
  ELSE IF intents[1] \in {PRACTICAL_ADVICE, BUDGET_PLANNING}
    THEN PRACTICAL_PLANNING
  ELSE CONTEXT_ENRICHMENT

-----------------------------------------------------------------------------
(* ConversationEngine *)

\* session_id = None: no session id was given
NoSessionId == "<None>"

\* Python's truth value of an Optional[str] session id
Truthy(session_id) == session_id \notin {NoSessionId, ""}

\* ConversationContext(session_id=...); the fields user_preferences,
\* travel_profile and last_external_data_used are never written
ConversationContext(session_id) ==
  [session_id |-> session_id,
   current_destination |-> None,
   travel_dates |-> None,
   budget_range |-> None,
   interests |-> <<>>,
   previous_destinations |-> <<>>,
   conversation_depth |-> 0,
   weather_mentioned_for |-> None,
   weather_mentioned_at |-> 0]

\* ConversationSession(session_id=..., context=...) made at time t
ConversationSession(session_id, t) ==
  [session_id |-> session_id,
   state |-> GREETING,
   context |-> ConversationContext(session_id),
   messages |-> <<>>,
   detected_intents |-> <<>>,
   created_at |-> t,
   updated_at |-> t]

Message(role, content) == [role |-> role, content |-> content]

EmptyStore == [id \in {} |-> None]

\* get_or_create_session without the lookup: a session is made and stored
\* whether or not the store holds one under the id
get_or_create_session_without_lookup(store, session_id, uuid4, t) ==
  [sessions |-> [id \in DOMAIN store \cup
                          {IF Truthy(session_id) THEN session_id ELSE uuid4} |->
                   IF id = (IF Truthy(session_id) THEN session_id ELSE uuid4)
                   THEN ConversationSession(id, t) ELSE store[id]],
   session_id |-> IF Truthy(session_id) THEN session_id ELSE uuid4,
   created |-> TRUE]

\* the store after the call, the id of the session returned, and whether
\* the session was created by the call
get_or_create_session(store, session_id, uuid4, t) ==
  IF Truthy(session_id) /\ session_id \in DOMAIN store
  THEN [sessions |-> store, session_id |-> session_id, created |-> FALSE]
  ELSE LET new_session_id == IF Truthy(session_id) THEN session_id ELSE uuid4
       IN [sessions |-> (new_session_id :> ConversationSession(new_session_id, t))
                        @@ store,
           session_id |-> new_session_id,
           created |-> TRUE]

landscape_destinations ==
  {<<"iceland">>, <<"banff">>, <<"new", "zealand">>, <<"norway">>,
   <<"patagonia">>, <<"dolomites">>}

city_destinations ==
  {<<"paris">>, <<"tokyo">>, <<"new", "york">>, <<"london">>, <<"barcelona">>}

_validate_destination_relevance(destination, interests) ==
  IF interests = <<>> THEN TRUE
  ELSE IF /\ InSeq("landscape_photography", interests)
          /\ LowerText(destination) \in city_destinations
    THEN FALSE
  ELSE TRUE

\* the list `destinations` of _track_user_preferences
tracked_destinations ==
  <<<<"iceland">>, <<"banff">>, <<"new", "zealand">>, <<"norway">>,
    <<"patagonia">>, <<"dolomites">>, <<"paris">>, <<"tokyo">>,
    <<"new", "york">>, <<"london">>, <<"barcelona">>>>

\* the substring tests of _track_user_preferences, evaluated once for each
\* text
Mentions ==
  Tabulated(
    [message \in TEXTS |->
       LET message_lower == LowerText(message) IN
       [landscape |-> AnyInText({<<"landscape">>, <<"photography">>,
                                 <<"incredible", "landscapes">>}, message_lower),
        solo |-> AnyInText({<<"solo">>, <<"first">>, <<"alone">>,
                            <<"overwhelmed">>}, message_lower),
        destinations |-> {k \in 1..Len(tracked_destinations) :
                            InText(tracked_destinations[k], message_lower)}]])

\* if any(word in message_lower ...) and tag not in interests: append
track_interest(interests, mentioned, tag) ==
  IF mentioned /\ ~InSeq(tag, interests) THEN Append(interests, tag)
  ELSE interests

\* the destination loop: the first destination of the list that the message
\* mentions is taken when none is set and the interests admit it
track_first(context, accepted) ==
  IF accepted = {} THEN context
  ELSE [context EXCEPT
          !.current_destination = TitleText(tracked_destinations[Min(accepted)])]

\* track_mentioned without the test "not session.context.current_destination"
track_mentioned_over_current(context, interests, mentions) ==
  track_first([context EXCEPT !.interests = interests],
    {k \in mentions.destinations :
       _validate_destination_relevance(tracked_destinations[k], interests)})

track_mentioned(context, interests, mentions) ==
  track_first([context EXCEPT !.interests = interests],
    {k \in mentions.destinations :
       /\ context.current_destination = None
       /\ _validate_destination_relevance(tracked_destinations[k], interests)})

\* the context of the session after _track_user_preferences(session, message)
track_mentions(context, mentions) ==
  track_mentioned(context,
    track_interest(
      track_interest(context.interests, mentions.landscape, "landscape_photography"),
      mentions.solo, "solo_travel"),
    mentions)

_track_user_preferences(context, message) ==
  track_mentions(context, Mentions[message])

\* process_message once the preferences are tracked and the context updated:
\* one outcome for each order in which detect_intents can list the intents
process_updated(got, message, t, tracked, context) ==
  {[sessions |->
      [got.sessions EXCEPT ![got.session_id] =
         [@ EXCEPT
            !.messages = Append(@, Message(USER, message)),
            !.detected_intents = intents,
            !.context = context,
            !.state = determine_next_state(@, intents, context),
            !.updated_at = t]],
    session_id |-> got.session_id,
    created |-> got.created,
    detect_context |-> tracked,
    intents |-> intents] : intents \in detect_intents(message, tracked)}

process_tracked(got, message, t, tracked) ==
  process_updated(got, message, t, tracked, update_context(tracked, message))

process_session(got, message, t) ==
  process_tracked(got, message, t,
    _track_user_preferences(got.sessions[got.session_id].context, message))

\* the outcomes of process_message(message, session_id) on a store at time t
process_message(store, message, session_id, uuid4, t) ==
  process_session(get_or_create_session(store, session_id, uuid4, t), message, t)

\* add_assistant_response writing over the last message of the session
\* instead of appending to the messages
add_assistant_response_replacing(store, session_id, response, t) ==
  [store EXCEPT ![session_id] =
     [@ EXCEPT !.messages =
                 IF @ = <<>> THEN <<Message(ASSISTANT, response)>>
                 ELSE [@ EXCEPT ![Len(@)] = Message(ASSISTANT, response)],
               !.updated_at = t]]

\* add_assistant_response(session, response), the session given by its id
add_assistant_response(store, session_id, response, t) ==
  [store EXCEPT ![session_id] =
     [@ EXCEPT !.messages = Append(@, Message(ASSISTANT, response)),
               !.updated_at = t]]

-----------------------------------------------------------------------------
(* The replies of chat() *)

\* what the language model and the weather service answer in this model
R_GENERIC ==
  <<"What", "aspect", "of", "your", "trip", "would", "you", "like", "to",
    "explore", "first">>

R_SPECIFIC == <<"Tokyo", "is", "lovely", "in", "spring">>

R_ENHANCED ==
  <<"Tokyo", "is", "lovely", "in", "spring", "and", "it", "is", "22",
    "degrees", "today">>

\* WeatherData(temperature=22.0, description="partly cloudy"), the
\* temperature as f"{temperature:.0f}°C" writes it
WEATHER_DATA ==
  [temperature |-> <<"22", "C">>, description |-> <<"partly", "cloudy">>]

\* text.replace(old, ''): the occurrences of old taken out, left to right
RECURSIVE replace(_, _)
replace(text, old) ==
  IF Len(text) < Len(old) THEN text
  ELSE IF SubSeq(text, 1, Len(old)) = old
    THEN replace(SubSeq(text, Len(old) + 1, Len(text)), old)
  ELSE <<text[1]>> \o replace(Tail(text), old)

\* the reply to an empty answer of the language model
final_response_fallback ==
  <<"I", "want", "to", "give", "you", "the", "best", "travel", "advice",
    "possible", "Could", "you", "help", "me", "understand", "exactly",
    "what", "you", "re", "looking", "for", "I", "can", "assist", "with",
    "destinations", "activities", "planning", "or", "any", "specific",
    "travel", "questions", "you", "have">>

photography_question ==
  <<"What", "specific", "type", "of", "photography", "are", "you", "most",
    "interested", "in">>

final_response_weather(destination, weather_data) ==
  <<"It", "s">> \o weather_data.temperature \o <<"and">>
    \o weather_data.description \o <<"in">> \o destination
    \o <<"today", "Perfect", "weather", "for", "exploring", "the", "city">>
    \o photography_question

final_response_photography(destination) ==
  <<"I", "d", "love", "to", "help", "you", "plan", "photography", "in">>
    \o destination \o photography_question

final_response_best_time(destination) ==
  <<"For", "photography", "in">> \o destination
    \o <<"the", "best", "times", "are", "typically", "during", "golden",
         "hours", "for", "stunning", "light", "and", "different", "seasons",
         "offer", "unique", "opportunities", "What", "style", "of",
         "photography", "captures", "your", "interest", "most">>

assist_sentence ==
  <<"I", "can", "assist", "with", "destination", "recommendations",
    "activity", "suggestions", "cultural", "insights", "and", "practical",
    "travel", "advice">>

explore_sentence ==
  <<"What", "aspect", "of", "your", "trip", "would", "you", "like", "to",
    "explore", "first">>

final_response_there(destination, base_response) ==
  <<"For">> \o destination
    \o replace(replace(base_response, assist_sentence), explore_sentence)
    \o <<"What", "specific", "aspect", "would", "you", "like", "to",
         "explore", "further">>

final_response_regarding(destination, base_response) ==
  <<"Regarding">> \o destination \o base_response

\* _calculate_message_similarity(msg1, msg2) > 0.7 on the lowercased texts
SIMILAR_TEXTS ==
  {<<M_HMM, M_HMM>>,
   <<M_TOKYO, M_TOKYO>>,
   <<M_WEATHER, M_WEATHER>>,
   <<M_PARIS, M_PARIS>>,
   <<M_PARIS_LOWER, M_PARIS_LOWER>>,
   <<M_LANDSCAPE, M_LANDSCAPE>>,
   <<M_PACK, M_PACK>>,
   <<M_LONDON, M_LONDON>>,
   <<M_ROME, M_ROME>>,
   <<M_OSLO, M_OSLO>>,
   <<M_VISIT_TOKYO, M_VISIT_TOKYO>>,
   <<M_ICELAND, M_ICELAND>>,
   <<M_ANGRY, M_ANGRY>>,
   <<M_CONFUSING, M_CONFUSING>>,
   <<M_HOTEL, M_HOTEL>>,
   <<M_SAFE, M_SAFE>>,
   <<M_SAFE_THERE, M_SAFE_THERE>>}

\* the texts with '!!!' or '???' in them
MULTIPLE_PUNCTUATION ==
  {}

\* the texts with more than two '?' in them
MANY_QUESTIONS ==
  {}

\* not _calculate_message_relevance(user_msg, ai_msg) < 0.2 on the lowercased texts
RELEVANT_REPLIES ==
  {<<M_TOKYO, final_response_fallback>>,
   <<M_TOKYO, R_GENERIC>>,
   <<M_TOKYO, R_SPECIFIC>>,
   <<M_TOKYO, R_ENHANCED>>,
   <<M_TOKYO, final_response_weather(<<"Tokyo">>, WEATHER_DATA)>>,
   <<M_TOKYO, final_response_photography(<<"Tokyo">>)>>,
   <<M_TOKYO, final_response_there(<<"Tokyo">>, R_GENERIC)>>,
   <<M_TOKYO, final_response_regarding(<<"Tokyo">>, R_GENERIC)>>,
   <<M_TOKYO, final_response_there(<<"Tokyo">>, R_SPECIFIC)>>,
   <<M_TOKYO, final_response_regarding(<<"Tokyo">>, R_SPECIFIC)>>,
   <<M_WEATHER, final_response_fallback>>,
   <<M_WEATHER, R_GENERIC>>,
   <<M_WEATHER, final_response_weather(<<"Tokyo">>, WEATHER_DATA)>>,
   <<M_WEATHER, final_response_best_time(<<"Tokyo">>)>>,
   <<M_WEATHER, final_response_there(<<"Tokyo">>, R_GENERIC)>>,
   <<M_WEATHER, final_response_regarding(<<"Tokyo">>, R_GENERIC)>>,
   <<M_WEATHER, final_response_there(<<"Tokyo">>, R_SPECIFIC)>>,
   <<M_ICELAND, final_response_fallback>>,
   <<M_ICELAND, final_response_weather(<<"Tokyo">>, WEATHER_DATA)>>,
   <<M_ICELAND, final_response_photography(<<"Tokyo">>)>>,
   <<M_ICELAND, final_response_best_time(<<"Tokyo">>)>>,
   <<M_ICELAND, final_response_there(<<"Tokyo">>, R_GENERIC)>>,
   <<M_ICELAND, final_response_there(<<"Tokyo">>, R_SPECIFIC)>>,
   <<M_CONFUSING, final_response_fallback>>,
   <<M_CONFUSING, final_response_there(<<"Tokyo">>, R_SPECIFIC)>>}

\* _is_generic_response on the answers of the language model
GENERIC_RESPONSES ==
  {R_GENERIC}

\* the rounding of 0.3 added k times, 0.2 r times, 0.1 p times, for <<k, r, p>>, where the sum is not above 1.0
FRUSTRATION_ROUNDING ==
  (<<0, 1, 1>> :> 1)
  @@ (<<0, 3, 0>> :> 1)
  @@ (<<0, 3, 1>> :> 1)
  @@ (<<1, 2, 1>> :> -1)
  @@ (<<1, 3, 0>> :> -1)
  @@ (<<1, 3, 1>> :> -1)
  @@ (<<3, 0, 0>> :> -1)
  @@ (<<3, 0, 1>> :> -1)

\* the rounding of 0.3 added k times, then min(v * 0.1, 0.3), then 0.2 q times, for <<k, v, q>>, where the sum is not above 1.0
AMBIGUITY_ROUNDING ==
  (<<0, 1, 1>> :> 1)
  @@ (<<1, 1, 1>> :> 1)
  @@ (<<2, 1, 1>> :> -1)
  @@ (<<2, 3, 0>> :> -1)
  @@ (<<2, 4, 0>> :> -1)
  @@ (<<2, 5, 0>> :> -1)
  @@ (<<2, 6, 0>> :> -1)
  @@ (<<3, 0, 0>> :> -1)
  @@ (<<3, 1, 0>> :> -1)
-----------------------------------------------------------------------------
(* ErrorPattern and ConversationRecoveryEngine (app/core/error_recovery.py) *)

API_TIMEOUT == "api_timeout"
API_RATE_LIMIT == "api_rate_limit"
INVALID_RESPONSE == "invalid_response"
CONTEXT_CONFUSION == "context_confusion"
INTENT_AMBIGUITY == "intent_ambiguity"
DATA_UNAVAILABLE == "data_unavailable"
USER_FRUSTRATION == "user_frustration"
SYSTEM_OVERLOAD == "system_overload"

ErrorType ==
  {API_TIMEOUT, API_RATE_LIMIT, INVALID_RESPONSE, CONTEXT_CONFUSION,
   INTENT_AMBIGUITY, DATA_UNAVAILABLE, USER_FRUSTRATION, SYSTEM_OVERLOAD}

GRACEFUL_FALLBACK == "graceful_fallback"
CONTEXT_RESET == "context_reset"
CLARIFICATION_REQUEST == "clarification_request"
ALTERNATIVE_PATH == "alternative_path"
ESCALATION == "escalation"
LEARNING_OPPORTUNITY == "learning_opportunity"

RecoveryStrategy ==
  {GRACEFUL_FALLBACK, CONTEXT_RESET, CLARIFICATION_REQUEST, ALTERNATIVE_PATH,
   ESCALATION, LEARNING_OPPORTUNITY}

USER_FRUSTRATION_INDICATORS ==
  <<<<"this", "doesn", "t", "help">>, <<"not", "what", "I", "asked">>,
    <<"you", "don", "t", "understand">>, <<"this", "is", "wrong">>,
    <<"that", "s", "not", "helpful">>, <<"I", "already", "told", "you">>,
    <<"you", "re", "not", "listening">>, <<"this", "is", "confusing">>,
    <<"start", "over">>, <<"why", "this", "long">>, <<"too", "verbose">>,
    <<"too", "much", "text">>, <<"keep", "it", "short">>>>

CONTEXT_CONFUSION_INDICATORS ==
  <<<<"what", "are", "we", "talking", "about">>, <<"I", "m", "lost">>,
    <<"can", "we", "start", "over">>, <<"I", "don", "t", "follow">>,
    <<"that", "doesn", "t", "make", "sense">>,
    <<"completely", "off", "topic">>>>

INTENT_AMBIGUITY_INDICATORS ==
  <<<<"I", "meant">>, <<"actually">>,
    <<"no", "I", "was", "asking", "about">>,
    <<"that", "s", "not", "what", "I">>, <<"let", "me", "clarify">>,
    <<"I", "m", "looking", "for">>, <<"I", "need", "help", "with">>>>

vague_terms ==
  <<<<"something">>, <<"anything">>, <<"whatever">>, <<"some">>,
    <<"kind", "of">>, <<"sort", "of">>>>

\* sum(1 for indicator in indicators if indicator in user_msg_lower)
found_in(indicators, user_msg_lower) ==
  Cardinality({k \in DOMAIN indicators : InText(indicators[k], user_msg_lower)})

\* the substring tests of the three scores, evaluated once for each text
Indications ==
  [message \in TEXTS |->
     [frustration |-> found_in(USER_FRUSTRATION_INDICATORS, LowerText(message)),
      confusion |-> found_in(CONTEXT_CONFUSION_INDICATORS, LowerText(message)),
      ambiguity |-> found_in(INTENT_AMBIGUITY_INDICATORS, LowerText(message)),
      vague |-> found_in(vague_terms, LowerText(message)),
      punctuation |-> IF message \in MULTIPLE_PUNCTUATION THEN 1 ELSE 0,
      questions |-> IF message \in MANY_QUESTIONS THEN 1 ELSE 0]]

\* A score is kept in thousandths.  A sum of floats that rounding has left
\* just below or just above its decimal value is one thousandth below or
\* above it, so that the comparisons with 0.4 .. 0.8 come out as in floats.
Rounding(table, key) == IF key \in DOMAIN table THEN table[key] ELSE 0

FRUSTRATION_THRESHOLD == 600
CONFUSION_THRESHOLD == 500
AMBIGUITY_THRESHOLD == 400
CRITICAL_THRESHOLD == 700
HIGH_CONFIDENCE == 800
MEDIUM_CONFIDENCE == 500
MAX_SCORE == 1000

\* [m.content.lower() for m in session.messages[-4:] if m.role.value == "user"]
recent_user_messages(messages) ==
  SelectSeq(SubSeq(messages, Max({1, Len(messages) - 3}), Len(messages)),
            LAMBDA m : m.role = USER)

\* the messages of recent[:-1] that are similar to the user's message
similar_among(recent, message) ==
  Cardinality({i \in 1..(Len(recent) - 1) :
                 <<recent[i].content, message>> \in SIMILAR_TEXTS})

repeated_requests(messages, message) ==
  IF Len(messages) > 4
  THEN similar_among(recent_user_messages(messages), message)
  ELSE 0

\* the caps ratio is that of the lowercased message: it is 0
frustration_sum(found, repeated, punctuation) ==
  300 * found + 200 * repeated + 100 * punctuation
    + Rounding(FRUSTRATION_ROUNDING, <<found, repeated, punctuation>>)

_calculate_frustration_score(message, session) ==
  Min({MAX_SCORE,
       frustration_sum(Indications[message].frustration,
                       repeated_requests(session.messages, message),
                       Indications[message].punctuation)})

\* next((m.content for m in reversed(messages) if m.role.value ==
\* "assistant"), "")
last_ai_msg(messages) ==
  IF \E i \in 1..Len(messages) : messages[i].role = ASSISTANT
  THEN messages[Max({i \in 1..Len(messages) : messages[i].role = ASSISTANT})]
         .content
  ELSE <<>>

\* _calculate_message_relevance(user_msg_lower, last_ai_msg.lower()) < 0.2
unrelated(message, ai_msg) == <<message, ai_msg>> \notin RELEVANT_REPLIES

_calculate_confusion_score(message, session) ==
  Min({MAX_SCORE,
       400 * Indications[message].confusion
         + (IF /\ Len(session.messages) > 2
               /\ unrelated(message, last_ai_msg(session.messages))
            THEN 300 ELSE 0)})

ambiguity_sum(found, vague, questions) ==
  300 * found + Min({100 * vague, 300}) + 200 * questions
    + Rounding(AMBIGUITY_ROUNDING, <<found, vague, questions>>)

_calculate_ambiguity_score(message, session) ==
  Min({MAX_SCORE,
       ambiguity_sum(Indications[message].ambiguity,
                     Indications[message].vague,
                     Indications[message].questions)})

issue_if(error_type, score, threshold) ==
  IF score > threshold THEN <<<<error_type, score>>>> ELSE <<>>

\* detect_conversation_issues(user_message, session), without ai_response
detect_conversation_issues(message, session) ==
  issue_if(USER_FRUSTRATION, _calculate_frustration_score(message, session),
           FRUSTRATION_THRESHOLD)
    \o issue_if(CONTEXT_CONFUSION, _calculate_confusion_score(message, session),
                CONFUSION_THRESHOLD)
    \o issue_if(INTENT_AMBIGUITY, _calculate_ambiguity_score(message, session),
                AMBIGUITY_THRESHOLD)

\* _select_recovery_strategy with >= for the high confidence
_select_recovery_strategy_from_threshold(error_type, confidence, session) ==
  IF confidence >= HIGH_CONFIDENCE /\ error_type = USER_FRUSTRATION
  THEN ESCALATION
  ELSE IF confidence >= HIGH_CONFIDENCE /\ error_type = CONTEXT_CONFUSION
    THEN CONTEXT_RESET
  ELSE IF confidence > MEDIUM_CONFIDENCE THEN CLARIFICATION_REQUEST
  ELSE GRACEFUL_FALLBACK

\* the session is a parameter that no path reads
_select_recovery_strategy(error_type, confidence, session) ==
  IF confidence > HIGH_CONFIDENCE /\ error_type = USER_FRUSTRATION
  THEN ESCALATION
  ELSE IF confidence > HIGH_CONFIDENCE /\ error_type = CONTEXT_CONFUSION
    THEN CONTEXT_RESET
  ELSE IF confidence > MEDIUM_CONFIDENCE THEN CLARIFICATION_REQUEST
  ELSE GRACEFUL_FALLBACK

\* error_history after _log_recovery_attempt(error_type, recovery_data,
\* session_id) at time t
_log_recovery_attempt(history, error_type, strategy, session_id, t) ==
  (session_id :>
     Append(IF session_id \in DOMAIN history THEN history[session_id] ELSE <<>>,
            [timestamp |-> t, error_type |-> error_type,
             recovery_strategy |-> strategy]))
  @@ history

\* error_history after generate_recovery_response(error_type, confidence,
\* user_message, session): the session is read, not written
generate_recovery_response(history, error_type, confidence, session, t) ==
  _log_recovery_attempt(history, error_type,
                        _select_recovery_strategy(error_type, confidence,
                                                  session),
                        session.session_id, t)

-----------------------------------------------------------------------------
(* SmartContextManager: the quality memory (app/core/conversation.py) *)

\* topic_keywords: for each topic, in the order of the dict, its patterns,
\* each \b(w1|w2|...)\b given by the set of its words, and twice its weight
topic_keywords ==
  <<[topic |-> "destinations", weight |-> 4, patterns |->
       <<{"city", "cities", "country", "countries", "destination", "place",
          "location", "region", "area"},
         {"visit", "travel", "go", "trip", "vacation", "journey",
          "adventure", "getaway"},
         {"capital", "province", "state", "island", "continent",
          "territory"}>>],
    [topic |-> "activities", weight |-> 4, patterns |->
       <<{"museum", "gallery", "park", "beach", "mountain", "hiking",
          "climbing", "swimming"},
         {"restaurant", "cafe", "bar", "nightlife", "shopping", "market",
          "festival", "concert"},
         {"tour", "excursion", "sightseeing", "photography", "art",
          "culture", "history"},
         {"adventure", "experience", "activity", "attraction", "landmark",
          "monument"},
         {"sports", "outdoor", "nature", "wildlife", "scenic",
          "entertainment"}>>],
    [topic |-> "planning", weight |-> 3, patterns |->
       <<{"budget", "cost", "price", "money", "expensive", "cheap",
          "affordable"},
         {"time", "season", "weather", "climate", "temperature", "when",
          "schedule"},
         {"visa", "passport", "document", "requirement", "booking",
          "reservation"},
         {"flight", "train", "bus", "transport", "accommodation", "hotel",
          "hostel"},
         {"pack", "luggage", "clothes", "essentials", "prepare", "plan"}>>],
    [topic |-> "preferences", weight |-> 2, patterns |->
       <<{"prefer", "like", "love", "enjoy", "hate", "dislike", "avoid",
          "interested"},
         {"want", "need", "looking", "hoping", "expecting", "wish", "dream"},
         {"favorite", "best", "worst", "amazing", "terrible", "beautiful",
          "ugly"},
         {"recommend", "suggest", "advice", "opinion", "thoughts",
          "ideas"}>>],
    [topic |-> "cultural", weight |-> 3, patterns |->
       <<{"culture", "tradition", "custom", "etiquette", "language",
          "people", "local"},
         {"religion", "spiritual", "temple", "church", "ceremony",
          "festival"},
         {"food", "cuisine", "dish", "meal", "cooking", "recipe",
          "authentic"},
         {"art", "music", "dance", "literature", "heritage",
          "historical"}>>],
    [topic |-> "practical", weight |-> 2, patterns |->
       <<{"safety", "safe", "dangerous", "security", "crime", "precaution"},
         {"health", "medical", "insurance", "emergency", "hospital",
          "pharmacy"},
         {"communication", "internet", "phone", "language", "translate"},
         {"currency", "exchange", "payment", "tip", "bargain",
          "negotiate"}>>]>>

\* threshold = 1.0, counted in halves as the weights are
TOPIC_THRESHOLD == 2

\* travel_topics[:10]
TOPIC_LIMIT == 10

\* the sizes past which the lists of the memory are cut, and the sizes they
\* are cut to
MAX_TOPICS == 20
KEPT_TOPICS == 15
MAX_TRENDS == 50
KEPT_TRENDS == 30

\* the sum, over the patterns of a topic, of len(re.findall(pattern,
\* text_lower)): the words of the text that are words of the pattern
matches(patterns, text_lower) ==
  Cardinality({at \in (DOMAIN patterns) \X (DOMAIN text_lower) :
                 text_lower[at[2]] \in patterns[at[1]]})

topic_score(config, text_lower) ==
  matches(config.patterns, text_lower) * config.weight

\* the topics whose score is positive and meets the threshold, in the
\* order of topic_keywords
scored_from(text_lower, k) ==
  IF /\ topic_score(topic_keywords[k], text_lower) > 0
     /\ topic_score(topic_keywords[k], text_lower) >= TOPIC_THRESHOLD
  THEN <<topic_keywords[k].topic>> ELSE <<>>

scored_topics(text_lower) ==
  scored_from(text_lower, 1) \o scored_from(text_lower, 2)
    \o scored_from(text_lower, 3) \o scored_from(text_lower, 4)
    \o scored_from(text_lower, 5) \o scored_from(text_lower, 6)

\* if a in travel_topics and b in travel_topics: append(both)
contextual_topic(travel_topics, a, b, both) ==
  IF InSeq(a, travel_topics) /\ InSeq(b, travel_topics)
  THEN Append(travel_topics, both) ELSE travel_topics

contextual_topics(travel_topics) ==
  contextual_topic(
    contextual_topic(
      contextual_topic(travel_topics, "destinations", "preferences",
                       "destination_preferences"),
      "activities", "cultural", "cultural_activities"),
    "planning", "practical", "trip_logistics")

first_topics(travel_topics) ==
  SubSeq(travel_topics, 1, Min({TOPIC_LIMIT, Len(travel_topics)}))

_extract_topics(text) ==
  first_topics(contextual_topics(scored_topics(LowerText(text))))

\* the answers that chat() gives in this model
CHAT_REPLIES ==
  {final_response_fallback, R_GENERIC, R_SPECIFIC, R_ENHANCED,
   final_response_weather(<<"Tokyo">>, WEATHER_DATA),
   final_response_photography(<<"Tokyo">>),
   final_response_best_time(<<"Tokyo">>),
   final_response_there(<<"Tokyo">>, R_GENERIC),
   final_response_there(<<"Tokyo">>, R_SPECIFIC),
   final_response_regarding(<<"Tokyo">>, R_GENERIC),
   final_response_regarding(<<"Tokyo">>, R_SPECIFIC)}

\* _extract_topics(user_msg + " " + ai_response), evaluated once for each
\* message and answer of chat()
ExchangeTopics ==
  Tabulated(
    [exchange \in TEXTS \X CHAT_REPLIES |->
       _extract_topics(exchange[1] \o exchange[2])])

exchange_topics(user_msg, ai_response) ==
  IF <<user_msg, ai_response>> \in DOMAIN ExchangeTopics
  THEN ExchangeTopics[<<user_msg, ai_response>>]
  ELSE _extract_topics(user_msg \o ai_response)

\* the entry of a session that the memory does not hold yet; the keys
\* concrete_plans, user_preferences and conversation_flow are never written
NewMemory ==
  [topics_discussed |-> <<>>, decisions_made |-> <<>>, quality_trends |-> <<>>]

\* cut that drops the newest entries and keeps the oldest
cut_from_the_end(list, most, kept) ==
  IF Len(list) > most THEN SubSeq(list, 1, kept) ELSE list

\* list = list[-kept:] when len(list) > most
cut(list, most, kept) ==
  IF Len(list) > most THEN SubSeq(list, Len(list) - kept + 1, Len(list))
  ELSE list

\* any(word in user_msg.lower() for word in ['decided', 'booked', ...])
decision_words ==
  {<<"decided">>, <<"booked">>, <<"will", "go">>, <<"planning", "to">>}

\* the entry of the session after the update at time t; of a quality trend
\* the timestamp is kept, the two scores of the exchange are not
updated_memory(memory, user_msg, ai_response, t) ==
  [topics_discussed |->
     cut(memory.topics_discussed \o exchange_topics(user_msg, ai_response),
         MAX_TOPICS, KEPT_TOPICS),
   decisions_made |->
     IF AnyInText(decision_words, LowerText(user_msg))
     THEN Append(memory.decisions_made,
                 [decision |-> user_msg, timestamp |-> t])
     ELSE memory.decisions_made,
   quality_trends |->
     cut(Append(memory.quality_trends, [timestamp |-> t]),
         MAX_TRENDS, KEPT_TRENDS)]

\* conversation_memory after _update_conversation_memory
_update_conversation_memory(memory, session_id, user_msg, ai_response, t) ==
  (session_id :>
     updated_memory(IF session_id \in DOMAIN memory THEN memory[session_id]
                    ELSE NewMemory,
                    user_msg, ai_response, t))
  @@ memory

\* the progress that one decision made stands for, the progress of a
\* session without memory and the highest progress, in thousandths
DECISION_PROGRESS == 300
UNKNOWN_PROGRESS == 500
FULL_PROGRESS == 1000

\* _measure_progress(session_id), in thousandths; concrete_plans is never
\* written, so that its term is 0
_measure_progress(memory, session_id) ==
  IF session_id \in DOMAIN memory
  THEN Min({Len(memory[session_id].decisions_made) * DECISION_PROGRESS,
            FULL_PROGRESS})
  ELSE UNKNOWN_PROGRESS

\* of the quality_metrics of track_conversation_quality, the progress score,
\* computed before the memory is updated; the follow-through score, which
\* reads the memory as well, and the scores computed from the two texts
\* alone are left out
quality_metrics(memory, session_id) ==
  [conversation_progress |-> _measure_progress(memory, session_id)]

\* conversation_memory after track_conversation_quality(session_id,
\* user_msg, ai_response): the metrics are computed from the two texts and
\* the memory, and returned; the update of the memory is the one write
track_conversation_quality(memory, session_id, user_msg, ai_response, t) ==
  _update_conversation_memory(memory, session_id, user_msg, ai_response, t)
-----------------------------------------------------------------------------
(* DataAugmentationService: the smart cache (app/services/external_apis.py) *)

(* smart_caching is a dict: it is kept as the sequence of its entries in    *)
(* the order of their insertion, which is the order dict.keys() lists them  *)
(* in.  A cache key "data_type:destination" is given by a number, equal     *)
(* numbers for equal strings; the cached data is not kept.                  *)

\* len(self.smart_caching) > 100
CACHE_LIMIT == 100

\* sorted(...)[:20]
CACHE_EVICTED == 20

\* the confidence of data that was just fetched, in thousandths
FRESH_CONFIDENCE == 900

cached_keys(cache) == {cache[i].key : i \in DOMAIN cache}

position(cache, cache_key) ==
  CHOOSE i \in DOMAIN cache : cache[i].key = cache_key

\* self.smart_caching.get(cache_key, {}).get('access_count', 0)
access_count(cache, cache_key) ==
  IF cache_key \in cached_keys(cache)
  THEN cache[position(cache, cache_key)].access_count
  ELSE 0

\* self.smart_caching[cache_key] = entry: a key of the dict keeps its place,
\* a new key goes to the end
assigned(cache, cache_key, entry) ==
  IF cache_key \in cached_keys(cache)
  THEN [cache EXCEPT ![position(cache, cache_key)] = entry]
  ELSE Append(cache, entry)

\* the place of the entry at position i in sorted(keys, key=timestamp): the
\* sort is stable, so that entries of one timestamp stay in the order of the
\* dict
sorted_before(cache, i) ==
  {j \in DOMAIN cache :
     \/ cache[j].timestamp < cache[i].timestamp
     \/ cache[j].timestamp = cache[i].timestamp /\ j < i}

\* the place of the entry at position i in the same list sorted from the
\* newest to the oldest
sorted_after(cache, i) ==
  {j \in DOMAIN cache :
     \/ cache[j].timestamp > cache[i].timestamp
     \/ cache[j].timestamp = cache[i].timestamp /\ j < i}

\* sorted(self.smart_caching.keys(), key=...timestamp)[:20]
oldest_keys(cache) ==
  {cache[i].key : i \in {i \in DOMAIN cache :
                           Cardinality(sorted_before(cache, i)) < CACHE_EVICTED}}

newest_keys(cache) ==
  {cache[i].key : i \in {i \in DOMAIN cache :
                           Cardinality(sorted_after(cache, i)) < CACHE_EVICTED}}

\* for key in oldest_keys: del self.smart_caching[key]
deleted(cache, keys) == SelectSeq(cache, LAMBDA entry : entry.key \notin keys)

\* the end of _update_smart_cache, with the list sorted in reverse
cache_cut_newest(cache) ==
  IF Len(cache) > CACHE_LIMIT THEN deleted(cache, newest_keys(cache))
  ELSE cache

\* prevent the cache from growing too large
cache_cut(cache) ==
  IF Len(cache) > CACHE_LIMIT THEN deleted(cache, oldest_keys(cache))
  ELSE cache

\* smart_caching after _update_smart_cache(cache_key, data, confidence) at
\* time t
_update_smart_cache(cache, cache_key, confidence, t) ==
  cache_cut(
    assigned(cache, cache_key,
      [key |-> cache_key, timestamp |-> t, confidence |-> confidence,
       access_count |-> access_count(cache, cache_key) + 1]))

-----------------------------------------------------------------------------
(* Bounds and inputs *)

\* the calls made on the engine
MaxCalls == 3

\* the messages of a conversation that moves between destinations
MaxSwitches == 5

\* the conversation depths given to determine_next_state: 0..MaxDepth
MaxDepth == 10

\* the requests that chat() receives
MaxRequests == 2

\* the texts sent to the engine
MESSAGES ==
  {M_EMPTY, M_HMM, M_TOKYO, M_WEATHER, M_PARIS, M_LANDSCAPE, M_PACK}

\* the texts of a conversation that moves from destination to destination
DESTINATION_MESSAGES ==
  {M_VISIT_TOKYO, M_PARIS, M_LONDON, M_ROME, M_OSLO, M_WEATHER}

\* the session ids a caller passes: none, the empty string, a chosen one
SESSION_IDS == {NoSessionId, "", "s1"}

\* values of str(uuid.uuid4()), in the order they are drawn
UUIDS == <<"uuid-1", "uuid-2", "uuid-3", "uuid-4", "uuid-5", "uuid-6">>

RESPONSE == <<"Sure">>

\* the texts sent to chat(): one that sets a destination, a question about
\* it, one that the recovery engine takes for frustration, one whose
\* destination is a travel description
CHAT_MESSAGES == {M_TOKYO, M_WEATHER, M_ANGRY, M_ICELAND}

\* the session ids of the requests: none, a chosen one
CHAT_SESSION_IDS == {NoSessionId, "s1"}

\* the keys of the data that the orchestration returns: none, one that
\* chat() formats, one that it does not
EXTERNAL_DATA == {{}, {"weather"}, {"country"}, {"attractions"}}

\* the answers of the language model: none, a generic one, a specific one
LLM_RESPONSES == {<<>>, R_GENERIC, R_SPECIFIC}

\* the answers of enhance_response_with_data
ENHANCED_RESPONSES == {<<>>, R_ENHANCED}

\* the answers of get_current_weather
WEATHER_ANSWERS == {None, WEATHER_DATA}

\* the lists of intents given to determine_next_state: the primary intent
\* alone or followed by another one, and the empty list
INTENT_LISTS ==
  {<<>>} \cup {<<primary>> : primary \in UserIntent}
         \cup {pair \in UserIntent \X UserIntent : pair[1] # pair[2]}

-----------------------------------------------------------------------------
(* The calls of the engine *)

NoCall ==
  [op |-> "none", session_id |-> NoSessionId, message |-> <<>>,
   before |-> EmptyStore, result |-> NoSessionId, created |-> FALSE,
   detect_context |-> ConversationContext(NoSessionId), intents |-> <<>>,
   state |-> GREETING]

NoCount == [processed |-> 0, created |-> 0]

\* the counts after a call that resolved to session id `id`
Counted(id, processed, created) ==
  (id :> [processed |-> (IF id \in DOMAIN calls THEN calls[id] ELSE NoCount).processed
                        + processed,
          created |-> (IF id \in DOMAIN calls THEN calls[id] ELSE NoCount).created
                      + (IF created THEN 1 ELSE 0)]) @@ calls

\* str(uuid.uuid4()): a value no session has yet; which value it is makes
\* no difference, and the first one not drawn so far is taken
FreshUuids(session_id) ==
  {UUIDS[Min({k \in DOMAIN UUIDS : UUIDS[k] \notin DOMAIN sessions})]}

GetOrCreateSession(session_id) ==
  \E uuid4 \in FreshUuids(session_id) :
    \E got \in {get_or_create_session(sessions, session_id, uuid4, now + 1)} :
      /\ sessions' = got.sessions
      /\ now' = now + 1
      /\ last' = [NoCall EXCEPT !.op = "get_or_create_session",
                                !.session_id = session_id,
                                !.before = sessions,
                                !.result = got.session_id,
                                !.created = got.created]
      /\ calls' = Counted(got.session_id, 0, got.created)
      /\ UNCHANGED <<handlers, error_history, conversation_memory, smart_caching>>

ProcessMessage(message, session_id) ==
  \E uuid4 \in FreshUuids(session_id) :
    \E out \in process_message(sessions, message, session_id, uuid4, now + 1) :
      /\ sessions' = out.sessions
      /\ now' = now + 1
      /\ last' = [NoCall EXCEPT !.op = "process_message",
                                !.session_id = session_id,
                                !.message = message,
                                !.before = sessions,
                                !.result = out.session_id,
                                !.created = out.created,
                                !.detect_context = out.detect_context,
                                !.intents = out.intents]
      /\ calls' = Counted(out.session_id, 1, out.created)
      /\ UNCHANGED <<handlers, error_history, conversation_memory, smart_caching>>

AddAssistantResponse(session_id, response) ==
  /\ session_id \in DOMAIN sessions
  /\ sessions' = add_assistant_response(sessions, session_id, response, now + 1)
  /\ now' = now + 1
  /\ last' = [NoCall EXCEPT !.op = "add_assistant_response",
                            !.session_id = session_id,
                            !.message = response,
                            !.before = sessions,
                            !.result = session_id]
  /\ UNCHANGED <<calls, handlers, error_history, conversation_memory, smart_caching>>

\* ConversationEngine(): no session; no request received
Init ==
  /\ sessions = EmptyStore
  /\ now = 0
  /\ last = NoCall
  /\ calls = [id \in {} |-> NoCount]
  /\ handlers = <<>>
  /\ error_history = [id \in {} |-> <<>>]
  /\ conversation_memory = [id \in {} |-> <<>>]
  /\ smart_caching = <<>>

EngineProcessMessage ==
  /\ now < MaxCalls
  /\ \E message \in MESSAGES : \E session_id \in SESSION_IDS \cup DOMAIN sessions :
        ProcessMessage(message, session_id)

EngineGetOrCreateSession ==
  /\ now < MaxCalls
  /\ \E session_id \in SESSION_IDS \cup DOMAIN sessions :
        GetOrCreateSession(session_id)

EngineAddAssistantResponse ==
  /\ now < MaxCalls
  /\ \E session_id \in DOMAIN sessions :
        AddAssistantResponse(session_id, RESPONSE)

Next ==
  \/ EngineProcessMessage
  \/ EngineGetOrCreateSession
  \/ EngineAddAssistantResponse

\* any calls of the engine, one after the other
Spec == Init /\ [][Next]_vars

-----------------------------------------------------------------------------
(* One conversation that moves from destination to destination *)

SwitchDestination ==
  /\ now < MaxSwitches
  /\ \E message \in DESTINATION_MESSAGES : ProcessMessage(message, "s1")

SpecDest == Init /\ [][SwitchDestination]_vars

-----------------------------------------------------------------------------
(* determine_next_state on every state, list of intents and depth *)

InitNext ==
  /\ sessions = EmptyStore
  /\ now = 0
  /\ calls = [id \in {} |-> NoCount]
  /\ handlers = <<>>
  /\ error_history = [id \in {} |-> <<>>]
  /\ conversation_memory = [id \in {} |-> <<>>]
  /\ smart_caching = <<>>
  /\ \E current_state \in ConversationState :
       \E intents \in INTENT_LISTS :
         \E depth \in 0..MaxDepth :
           last = [NoCall EXCEPT
                     !.op = "arguments",
                     !.state = current_state,
                     !.intents = intents,
                     !.detect_context.conversation_depth = depth]

DetermineNextState ==
  /\ last.op = "arguments"
  /\ last' = [last EXCEPT
                !.op = "determine_next_state",
                !.result = determine_next_state(last.state, last.intents,
                                                last.detect_context)]
  /\ UNCHANGED <<sessions, now, calls, handlers, error_history, conversation_memory, smart_caching>>

SpecNext == InitNext /\ [][DetermineNextState]_vars

-----------------------------------------------------------------------------
(* chat(): the handler of POST /chat (app/main.py) *)

\* The handlers are coroutines of one event loop: a handler runs alone from
\* one await to the next, and the handlers take turns at the awaits.  A
\* handler is at the await named by its pc, or has returned.
Handler(message, session_id) ==
  [pc |-> "data", message |-> message, session_id |-> session_id,
   session |-> NoSessionId, external |-> {}, base_response |-> <<>>,
   final_response |-> <<>>, answered |-> FALSE,
   conversation_memory |-> [id \in {} |-> <<>>],
   quality_metrics |-> None]

\* the handler after context_manager.track_conversation_quality(session_id,
\* request.message, final_response): context_manager is the
\* SmartContextManager() that this call of chat() created
quality_tracked(handler, final_response, t) ==
  [handler EXCEPT
     !.final_response = final_response,
     !.answered = TRUE,
     !.quality_metrics =
        quality_metrics(handler.conversation_memory, handler.session),
     !.conversation_memory =
        track_conversation_quality(handler.conversation_memory,
          handler.session, handler.message, final_response, t)]

\* the substring tests of chat() on request.message.lower(), evaluated once
\* for each text
Asks ==
  Tabulated(
    [message \in TEXTS |->
       [weather |-> AnyInText({<<"weather">>, <<"temperature">>},
                              LowerText(message)),
        best_time |-> /\ InText(<<"best", "time">>, LowerText(message))
                      /\ InText(<<"visit">>, LowerText(message)),
        there |-> AnyInText({<<"there">>, <<"it">>}, LowerText(message))]])

invalid_patterns ==
  <<<<Words({<<"before">>, <<"after">>, <<"while">>, <<"when">>, <<"if">>,
             <<"unless">>, <<"during">>, <<"since">>, <<"until">>})>>,
    <<Words({<<"trip">>, <<"travel">>, <<"vacation">>, <<"journey">>,
             <<"adventure">>, <<"solo">>, <<"group">>})>>,
    <<Words({<<"photography">>, <<"landscape">>, <<"northern", "lights">>,
             <<"aurora">>})>>,
    <<Words({<<"time">>, <<"moment">>, <<"opportunity">>, <<"experience">>,
             <<"chance">>})>>>>

\* ^(first|next|last|my|your|our|their)\s+.*
starts_with_determiner(dest_lower) ==
  /\ Len(dest_lower) > 1
  /\ dest_lower[1] \in {"first", "next", "last", "my", "your", "our", "their"}

is_invalid_destination(dest) ==
  \/ dest = None
  \/ SearchAny(invalid_patterns, LowerText(dest))
  \/ starts_with_determiner(LowerText(dest))

\* the store once chat() has cleared a destination that is a description
clear_invalid_destination(store, id) ==
  IF /\ store[id].context.current_destination # None
     /\ is_invalid_destination(store[id].context.current_destination)
  THEN [store EXCEPT ![id].context.current_destination = None]
  ELSE store

session_exists(session_id) ==
  Truthy(session_id) /\ session_id \in DOMAIN sessions

\* [issue for issue in conversation_issues if issue[1] > 0.7]
critical_issues(message, session_id) ==
  IF session_exists(session_id)
  THEN SelectSeq(detect_conversation_issues(message, sessions[session_id]),
                 LAMBDA issue : issue[2] > CRITICAL_THRESHOLD)
  ELSE <<>>

_is_generic_response(response) == response \in GENERIC_RESPONSES

\* final_response where the answer is generic though a destination is set
\* and the message does not ask for the weather
contextual_response(destination, message, base_response) ==
  IF Asks[message].best_time THEN final_response_best_time(destination)
  ELSE IF Asks[message].there
    THEN final_response_there(destination, base_response)
  ELSE final_response_regarding(destination, base_response)

\* the store once the weather is noted as mentioned for the destination
weather_mentioned(store, id, t) ==
  [store EXCEPT ![id].context.weather_mentioned_for =
                  store[id].context.current_destination,
                ![id].context.weather_mentioned_at = t]

\* the loop over external_data: weather data of a set destination is noted
external_weather_mentioned(store, id, external, t) ==
  IF "weather" \in external /\ store[id].context.current_destination # None
  THEN weather_mentioned(store, id, t)
  ELSE store

\* the types of data that chat() formats for the language model
formatted_data(external) == external \cap {"weather", "forecast", "country"}

\* ChatRecover that hands the message to the engine before it returns the
\* recovery response
ChatRecover_processed(message, session_id) ==
  /\ Len(handlers) < MaxRequests
  /\ \E critical \in {critical_issues(message, session_id)} :
       /\ critical # <<>>
       /\ error_history' =
            generate_recovery_response(error_history, critical[1][1],
              critical[1][2], sessions[session_id], now + 1)
  /\ \E uuid4 \in FreshUuids(session_id) :
       \E out \in process_message(sessions, message, session_id, uuid4, now + 1) :
         sessions' = out.sessions
  /\ handlers' = Append(handlers,
       [Handler(message, session_id) EXCEPT !.pc = "recovered",
                                            !.session = session_id])
  /\ now' = now + 1
  /\ UNCHANGED <<last, calls, conversation_memory, smart_caching>>

\* a request arrives for a session in which the recovery engine sees a
\* critical issue: the recovery is logged and its response returned
ChatRecover(message, session_id) ==
  /\ Len(handlers) < MaxRequests
  /\ \E critical \in {critical_issues(message, session_id)} :
       /\ critical # <<>>
       /\ error_history' =
            generate_recovery_response(error_history, critical[1][1],
              critical[1][2], sessions[session_id], now + 1)
  /\ handlers' = Append(handlers,
       [Handler(message, session_id) EXCEPT !.pc = "recovered",
                                            !.session = session_id])
  /\ now' = now + 1
  /\ UNCHANGED <<sessions, last, calls, conversation_memory, smart_caching>>

\* a request arrives and is processed, up to the await of the data
ChatProcess(message, session_id) ==
  /\ Len(handlers) < MaxRequests
  /\ critical_issues(message, session_id) = <<>>
  /\ \E uuid4 \in FreshUuids(session_id) :
       \E out \in process_message(sessions, message, session_id, uuid4, now + 1) :
         /\ sessions' = clear_invalid_destination(out.sessions, out.session_id)
         /\ calls' = Counted(out.session_id, 1, out.created)
         /\ handlers' = Append(handlers,
              [Handler(message, session_id) EXCEPT !.session = out.session_id])
  /\ now' = now + 1
  /\ UNCHANGED <<last, error_history, conversation_memory, smart_caching>>

\* the handler, with its final response, goes through the external data: to
\* the await of the enhancement when there is data to format, and otherwise
\* to add_assistant_response, track_conversation_quality and the await of
\* the suggestions
ThroughExternalData(h, store, final_response) ==
  /\ sessions' =
       IF formatted_data(handlers[h].external) # {}
       THEN external_weather_mentioned(store, handlers[h].session,
                                       handlers[h].external, now + 1)
       ELSE add_assistant_response(
              external_weather_mentioned(store, handlers[h].session,
                                         handlers[h].external, now + 1),
              handlers[h].session, final_response, now + 1)
  /\ handlers' =
       [handlers EXCEPT
          ![h] = IF formatted_data(handlers[h].external) # {}
                 THEN [@ EXCEPT !.pc = "enhance",
                                !.final_response = final_response]
                 ELSE [quality_tracked(@, final_response, now + 1)
                         EXCEPT !.pc = "suggest"]]
  /\ now' = now + 1
  /\ UNCHANGED <<last, calls, error_history, conversation_memory, smart_caching>>

\* the handler adds its final response to the session, tracks the quality
\* of the exchange and goes to the await of the suggestions
Answer(h, final_response) ==
  /\ sessions' = add_assistant_response(sessions, handlers[h].session,
                                        final_response, now + 1)
  /\ handlers' =
       [handlers EXCEPT
          ![h] = [quality_tracked(@, final_response, now + 1)
                    EXCEPT !.pc = "suggest"]]
  /\ now' = now + 1
  /\ UNCHANGED <<last, calls, error_history, conversation_memory, smart_caching>>

\* intelligent_data_orchestration returns
ChatData(h) ==
  /\ handlers[h].pc = "data"
  /\ \E external \in EXTERNAL_DATA :
       handlers' = [handlers EXCEPT ![h].pc = "llm", ![h].external = external]
  /\ UNCHANGED <<sessions, now, last, calls, error_history, conversation_memory, smart_caching>>

\* generate_response returns
ChatLlm(h) ==
  /\ handlers[h].pc = "llm"
  /\ \E base_response \in LLM_RESPONSES :
       \E destination \in {sessions[handlers[h].session].context.current_destination} :
         IF base_response = <<>>
         THEN Answer(h, final_response_fallback)
         ELSE IF destination # None /\ _is_generic_response(base_response)
           THEN IF Asks[handlers[h].message].weather
                THEN /\ handlers' = [handlers EXCEPT
                                       ![h].pc = "weather",
                                       ![h].base_response = base_response]
                     /\ UNCHANGED <<sessions, now, last, calls, error_history, conversation_memory, smart_caching>>
                ELSE ThroughExternalData(h, sessions,
                       contextual_response(destination, handlers[h].message,
                                           base_response))
         ELSE ThroughExternalData(h, sessions, base_response)

\* get_current_weather returns data, or returns none or raises
ChatWeather(h) ==
  /\ handlers[h].pc = "weather"
  /\ \E weather_data \in WEATHER_ANSWERS :
       \E destination \in {sessions[handlers[h].session].context.current_destination} :
         IF weather_data # None
         THEN ThroughExternalData(h,
                weather_mentioned(sessions, handlers[h].session, now + 1),
                final_response_weather(destination, weather_data))
         ELSE ThroughExternalData(h, sessions,
                final_response_photography(destination))

\* enhance_response_with_data returns
ChatEnhance(h) ==
  /\ handlers[h].pc = "enhance"
  /\ \E enhanced_response \in ENHANCED_RESPONSES :
       Answer(h, IF enhanced_response # <<>> THEN enhanced_response
                 ELSE handlers[h].final_response)

\* generate_contextual_suggestions returns and chat() returns its response
ChatSuggest(h) ==
  /\ handlers[h].pc = "suggest"
  /\ handlers' = [handlers EXCEPT ![h].pc = "done"]
  /\ UNCHANGED <<sessions, now, last, calls, error_history, conversation_memory, smart_caching>>

\* an awaited service raises: chat() answers with the status 500
ChatFail(h) ==
  /\ handlers[h].pc \in {"data", "llm", "enhance", "suggest"}
  /\ handlers' = [handlers EXCEPT ![h].pc = "failed"]
  /\ UNCHANGED <<sessions, now, last, calls, error_history, conversation_memory, smart_caching>>

RequestRecovered ==
  \E message \in CHAT_MESSAGES : \E session_id \in CHAT_SESSION_IDS :
    ChatRecover(message, session_id)

RequestProcessed ==
  \E message \in CHAT_MESSAGES : \E session_id \in CHAT_SESSION_IDS :
    ChatProcess(message, session_id)

DataReturned == \E h \in DOMAIN handlers : ChatData(h)

LlmReturned == \E h \in DOMAIN handlers : ChatLlm(h)

WeatherReturned == \E h \in DOMAIN handlers : ChatWeather(h)

EnhancementReturned == \E h \in DOMAIN handlers : ChatEnhance(h)

SuggestionsReturned == \E h \in DOMAIN handlers : ChatSuggest(h)

ServiceRaised == \E h \in DOMAIN handlers : ChatFail(h)

NextChat ==
  \/ RequestRecovered
  \/ RequestProcessed
  \/ DataReturned
  \/ LlmReturned
  \/ WeatherReturned
  \/ EnhancementReturned
  \/ SuggestionsReturned
  \/ ServiceRaised

\* the requests of the clients, handled concurrently
SpecChat == Init /\ [][NextChat]_vars

-----------------------------------------------------------------------------
(* Properties of the engine *)

Set(session_id) == session_id \in DOMAIN sessions

NoDuplicates(seq) == \A i, j \in 1..Len(seq) : i # j => seq[i] # seq[j]

UserMessages(messages) == {i \in 1..Len(messages) : messages[i].role = USER}

\* C1: for every session, after N calls of process_message on its id (N >= 0,
\* whatever the texts, and whatever other calls are made in between),
\* context.conversation_depth is N
DepthCountsProcessedMessages ==
  \A id \in DOMAIN sessions :
    /\ id \in DOMAIN calls
    /\ sessions[id].context.conversation_depth = calls[id].processed

\* a session that processed two messages and took an answer in between
DepthTwoWithAnswer ==
  \E id \in DOMAIN sessions :
    /\ calls[id].processed = 2
    /\ sessions[id].context.conversation_depth = 2
    /\ Len(sessions[id].messages) = 3

\* C2: determine_next_state returns one of the six states for each of the six
\* current states, each of the seven intents as primary intent and each
\* depth, the depths above 8 included
NextStateIsAState ==
  last.op = "determine_next_state" => last.result \in ConversationState

\* past depth 8, from a state whose table has no entry for the intent, the
\* result is RecommendationRefinement
DepthOverrideTaken ==
  /\ last.op = "determine_next_state"
  /\ last.detect_context.conversation_depth > DEPTH_OVERRIDE
  /\ last.state = RECOMMENDATION_REFINEMENT
  /\ last.intents = <<PACKING_HELP>>
  /\ last.result = RECOMMENDATION_REFINEMENT

\* C3: detect_intents returns at least one intent for every message, the
\* empty one included, with or without a destination in the context, so
\* that detected_intents is not empty once a message was processed
IntentsNeverEmpty ==
  /\ last.op = "process_message" =>
       /\ last.intents # <<>>
       /\ sessions[last.result].detected_intents = last.intents
  /\ \A id \in DOMAIN sessions :
       calls[id].processed > 0 => sessions[id].detected_intents # <<>>

\* the empty message processed in a session whose destination is set
EmptyMessageWithDestination ==
  /\ last.op = "process_message"
  /\ last.message = M_EMPTY
  /\ last.detect_context.current_destination # None
  /\ Len(last.intents) = 1

\* the message matches no explicit and no implicit pattern
NoPattern(message) ==
  /\ PatternMatches[message].explicit = <<>>
  /\ ~PatternMatches[message].implicit_weather
  /\ ~PatternMatches[message].implicit_activity

\* C4: on a message that matches no explicit and no implicit pattern,
\* detect_intents returns exactly one intent: ActivityRequest when the
\* context it is given has a current destination, DestinationInquiry when
\* it has none
DefaultIntentByDestination ==
  (last.op = "process_message" /\ NoPattern(last.message)) =>
    last.intents = IF last.detect_context.current_destination # None
                   THEN <<ACTIVITY_REQUEST>>
                   ELSE <<DESTINATION_INQUIRY>>

\* a message without any pattern in a session that has a destination
DefaultWithDestination ==
  /\ last.op = "process_message"
  /\ last.message = M_HMM
  /\ NoPattern(last.message)
  /\ last.detect_context.current_destination = <<"Tokyo">>
  /\ last.intents = <<ACTIVITY_REQUEST>>

\* C5: when the session's interests are 'landscape_photography' and nothing
\* else (the code records no city interest at all), processing a message in
\* which the destination Paris is detected leaves current_destination as it
\* was before the call
LandscapeInterestKeepsDestination ==
  (/\ last.op = "process_message"
   /\ last.result \in DOMAIN last.before
   /\ Range(last.before[last.result].context.interests) = {"landscape_photography"}
   /\ InSeq(<<"Paris">>, extract_destinations(last.message)))
  => sessions[last.result].context.current_destination
       = last.before[last.result].context.current_destination

\* C6: when update_context replaces a set current_destination D by another
\* destination, D is in previous_destinations afterwards; and
\* previous_destinations never holds a destination twice, however the
\* conversation moves back and forth
SupersededDestinationKeptOnce ==
  /\ (/\ last.op = "process_message"
      /\ last.detect_context.current_destination # None
      /\ sessions[last.result].context.current_destination
           # last.detect_context.current_destination)
     => InSeq(last.detect_context.current_destination,
              sessions[last.result].context.previous_destinations)
  /\ \A id \in DOMAIN sessions :
       NoDuplicates(sessions[id].context.previous_destinations)

\* a conversation that went to a first destination, to a second one, back to
\* the first and to the second again
BackAndForth ==
  /\ Set("s1")
  /\ sessions["s1"].context.conversation_depth = 4
  /\ sessions["s1"].context.previous_destinations = <<<<"Tokyo">>, <<"Paris">>>>
  /\ sessions["s1"].context.current_destination = <<"Paris">>
  /\ last.detect_context.current_destination = <<"Tokyo">>

\* C7: previous_destinations holds at most 3 entries after any number of
\* switches between destinations
PreviousDestinationsCapped ==
  \A id \in DOMAIN sessions :
    Len(sessions[id].context.previous_destinations) <= 3

\* C8: in every state of a session, the last entry of previous_destinations
\* differs from current_destination
LastPreviousIsNotCurrent ==
  \A id \in DOMAIN sessions :
    sessions[id].context.previous_destinations # <<>> =>
      sessions[id].context.previous_destinations[
          Len(sessions[id].context.previous_destinations)]
        # sessions[id].context.current_destination

\* the session stored under id is as the constructors make it
Fresh(id) ==
  /\ sessions[id].session_id = id
  /\ sessions[id].state = GREETING
  /\ sessions[id].messages = <<>>
  /\ sessions[id].detected_intents = <<>>
  /\ sessions[id].context.session_id = id
  /\ sessions[id].context.current_destination = None
  /\ sessions[id].context.previous_destinations = <<>>
  /\ sessions[id].context.interests = <<>>
  /\ sessions[id].context.budget_range = None
  /\ sessions[id].context.travel_dates = None
  /\ sessions[id].context.conversation_depth = 0
  /\ sessions[id].context.weather_mentioned_for = None

\* the call stored one session, under last.result, and left the others
StoredOne ==
  /\ last.result \notin DOMAIN last.before
  /\ DOMAIN sessions = DOMAIN last.before \cup {last.result}
  /\ \A id \in DOMAIN last.before : sessions[id] = last.before[id]
  /\ Fresh(last.result)

\* C9, with the empty string counted as no id: get_or_create_session(id)
\* returns the session stored under id and leaves the store as it is when
\* there is one; otherwise it stores and returns a fresh session (Greeting,
\* empty context, no message), under id when id is a non-empty string and
\* under a newly generated id when id is None or the empty string
GetOrCreateSessionContract ==
  last.op = "get_or_create_session" =>
    IF last.session_id \in DOMAIN last.before
    THEN sessions = last.before /\ last.result = last.session_id
    ELSE /\ StoredOne
         /\ last.session_id \notin {NoSessionId, ""} => last.result = last.session_id

\* C9 as stated: the fresh session is stored under the given id whenever an
\* id is given, the empty string being one
GetOrCreateSessionUnderGivenId ==
  last.op = "get_or_create_session" =>
    IF last.session_id \in DOMAIN last.before
    THEN sessions = last.before /\ last.result = last.session_id
    ELSE /\ StoredOne
         /\ last.session_id # NoSessionId => last.result = last.session_id

\* get_or_create_session called with the id of a session that has a history
ExistingSessionReturned ==
  /\ last.op = "get_or_create_session"
  /\ last.session_id \in DOMAIN last.before
  /\ last.before[last.session_id].context.conversation_depth = 2
  /\ sessions = last.before

\* the requests that process_message has served on session id
Served(id) ==
  {h \in DOMAIN handlers :
     handlers[h].session = id /\ handlers[h].pc # "recovered"}

Holds(messages, message) == \E i \in 1..Len(messages) : messages[i] = message

\* C10: whatever the interleaving of the request handlers, each session id of
\* the store was created once; the handlers whose requests name the same
\* id, unknown before the first of them, work on that one session; and the
\* session has the user message, the depth and the reply of every handler
\* that processed a message on it, none lost to a second creation
SessionCreatedOnce ==
  /\ \A id \in DOMAIN sessions :
       /\ id \in DOMAIN calls
       /\ calls[id].created = 1
       /\ Cardinality(UserMessages(sessions[id].messages))
            = Cardinality(Served(id))
       /\ sessions[id].context.conversation_depth = Cardinality(Served(id))
       /\ Len(sessions[id].messages) - Cardinality(UserMessages(sessions[id].messages))
            = Cardinality({h \in Served(id) : handlers[h].answered})
  /\ \A h \in DOMAIN handlers :
       /\ handlers[h].session \in DOMAIN sessions
       /\ Truthy(handlers[h].session_id)
            => handlers[h].session = handlers[h].session_id
       /\ handlers[h].pc # "recovered"
            => Holds(sessions[handlers[h].session].messages,
                     Message(USER, handlers[h].message))
       /\ handlers[h].answered
            => Holds(sessions[handlers[h].session].messages,
                     Message(ASSISTANT, handlers[h].final_response))

\* two requests with the id "s1", which no session had, are in flight at
\* once: the first awaits the language model, the second awaits its data
TwoHandlersOneSession ==
  /\ Len(handlers) = 2
  /\ handlers[1].session_id = "s1" /\ handlers[1].pc = "llm"
  /\ handlers[2].session_id = "s1" /\ handlers[2].pc = "data"
  /\ DOMAIN sessions = {"s1"}
  /\ calls["s1"].created = 1
  /\ Len(sessions["s1"].messages) = 2

-----------------------------------------------------------------------------
(* Properties of the requests handled concurrently *)

\* the requests that went through process_message, in the order of the calls
processed_requests ==
  SelectSeq(handlers, LAMBDA handler : handler.pc # "recovered")

\* the stores left by the requests when each one runs alone, one after the
\* other, from its call of process_message up to its first await
RECURSIVE sequential(_, _)
sequential(stores, requests) ==
  IF requests = <<>> THEN stores
  ELSE sequential(
         UNION {{clear_invalid_destination(out.sessions, out.session_id) :
                   out \in process_message(store, Head(requests).message,
                                           Head(requests).session, UUIDS[1], 0)} :
                store \in stores},
         Tail(requests))

\* what process_message writes of a session: the state, the intents, the
\* context and the messages of the user
written(session) ==
  [state |-> session.state,
   detected_intents |-> session.detected_intents,
   context |-> [session.context EXCEPT !.weather_mentioned_for = None,
                                       !.weather_mentioned_at = 0],
   user_messages |-> SelectSeq(session.messages,
                               LAMBDA message : message.role = USER)]

\* the messages of the requests processed in the session, in their order
requested(id) ==
  [k \in 1..Len(SelectSeq(processed_requests,
                          LAMBDA handler : handler.session = id)) |->
     Message(USER, SelectSeq(processed_requests,
                             LAMBDA handler : handler.session = id)[k].message)]

\* C11: however the handlers of k requests on one session id take turns, the
\* session is the one left by the k calls of process_message run one after
\* the other in some order: the depth is k, the k messages of the user are
\* in the session, the state and the intents are those of the last call
\* of that order; no update is lost or half applied
ProcessMessageSerialized ==
  /\ \E store \in sequential({EmptyStore}, processed_requests) :
       /\ DOMAIN store = DOMAIN sessions
       /\ \A id \in DOMAIN sessions :
            written(sessions[id]) = written(store[id])
  /\ \A id \in DOMAIN sessions :
       /\ sessions[id].context.conversation_depth = Len(requested(id))
       /\ written(sessions[id]).user_messages = requested(id)

\* two requests on one session: the second one was processed and answered
\* while the first one waits for the language model
SecondAnsweredFirst ==
  /\ Len(handlers) = 2
  /\ \A h \in 1..2 : handlers[h].session_id = "s1"
  /\ handlers[1].message = M_TOKYO /\ handlers[1].pc = "llm"
  /\ handlers[2].message = M_WEATHER /\ handlers[2].pc = "done"
  /\ sessions["s1"].context.conversation_depth = 2
  /\ Len(sessions["s1"].messages) = 3
  /\ sessions["s1"].messages[3].role = ASSISTANT
  /\ InSeq(WEATHER_CHECK, sessions["s1"].detected_intents)

-----------------------------------------------------------------------------
(* _select_recovery_strategy on every error type and confidence *)

\* the confidences, in thousandths: the two thresholds, the values next to
\* them and values away from them
CONFIDENCES == {0, 300, 499, 500, 501, 700, 799, 800, 801, 899, 1000}

\* the sessions given to the recovery engine: a new one, and the ones that
\* processed a message
RECOVERY_SESSIONS ==
  {ConversationSession("s1", 1)}
    \cup UNION {{out.sessions["s1"] :
                   out \in process_message(EmptyStore, message, "s1", UUIDS[1], 1)} :
                message \in CHAT_MESSAGES}

InitStrategy ==
  /\ now = 1
  /\ calls = [id \in {} |-> NoCount]
  /\ handlers = <<>>
  /\ error_history = [id \in {} |-> <<>>]
  /\ conversation_memory = [id \in {} |-> <<>>]
  /\ smart_caching = <<>>
  /\ \E session \in RECOVERY_SESSIONS : sessions = ("s1" :> session)
  /\ \E error_type \in ErrorType :
       \E confidence \in CONFIDENCES :
         last = [op |-> "arguments", error_type |-> error_type,
                 confidence |-> confidence, before |-> sessions,
                 result |-> None]

SelectRecoveryStrategy ==
  /\ last.op = "arguments"
  /\ last' = [last EXCEPT
                !.op = "_select_recovery_strategy",
                !.result = _select_recovery_strategy(last.error_type,
                             last.confidence, sessions["s1"])]
  /\ UNCHANGED <<sessions, now, calls, handlers, error_history, conversation_memory, smart_caching>>

SpecStrategy == InitStrategy /\ [][SelectRecoveryStrategy]_vars

\* the decision table of the strategies
decision(error_type, confidence) ==
  CASE confidence > 800 /\ error_type = USER_FRUSTRATION -> ESCALATION
    [] confidence > 800 /\ error_type = CONTEXT_CONFUSION -> CONTEXT_RESET
    [] confidence > 500 /\ confidence <= 800 -> CLARIFICATION_REQUEST
    [] confidence > 800
         /\ error_type \notin {USER_FRUSTRATION, CONTEXT_CONFUSION} ->
           CLARIFICATION_REQUEST
    [] confidence <= 500 -> GRACEFUL_FALLBACK

\* C12: _select_recovery_strategy is a decision table over the error type
\* and the confidence: above 0.8 USER_FRUSTRATION gives ESCALATION and
\* CONTEXT_CONFUSION gives CONTEXT_RESET; otherwise above 0.5 gives
\* CLARIFICATION_REQUEST, at exactly 0.8 and above 0.8 for the other error
\* types too; otherwise GRACEFUL_FALLBACK.  The result is the same for
\* every session, and the session is left as it was
StrategyIsDecisionTable ==
  last.op = "_select_recovery_strategy" =>
    /\ last.result = decision(last.error_type, last.confidence)
    /\ sessions = last.before

\* the frustration of a user at confidence 0.8 exactly: no escalation
FrustrationAtThreshold ==
  /\ last.op = "_select_recovery_strategy"
  /\ last.error_type = USER_FRUSTRATION
  /\ last.confidence = 800
  /\ last.result = CLARIFICATION_REQUEST
  /\ sessions["s1"].context.conversation_depth = 1

-----------------------------------------------------------------------------
(* The recovery engine and the quality memory on the sessions of the engine *)

\* the calls made on the engine, the recovery engine and the context manager
MaxRecoveryCalls == 4

\* the calls of track_conversation_quality
MaxTracked == 52

\* the texts given to the recovery engine
RECOVERY_MESSAGES == {M_CONFUSING, M_TOKYO}

\* the issues given to the recovery engine: an error type that has a
\* strategy of its own and one that has none, a confidence above 0.8 and
\* one between 0.5 and 0.8
RECOVERY_ERRORS == {USER_FRUSTRATION, CONTEXT_CONFUSION, API_TIMEOUT}

RECOVERY_CONFIDENCES == {700, 900}

\* the texts given to track_conversation_quality: without a topic, with
\* two topics, with six topics and the three combined ones
QUALITY_MESSAGES == {M_HMM, M_WEATHER, M_HOTEL}

DetectConversationIssues(message, session_id) ==
  /\ session_id \in DOMAIN sessions
  /\ last' = [op |-> "detect_conversation_issues",
              message |-> message,
              session_id |-> session_id,
              before |-> sessions,
              frustration_score |->
                _calculate_frustration_score(message, sessions[session_id]),
              result |->
                detect_conversation_issues(message, sessions[session_id])]
  /\ now' = now + 1
  /\ UNCHANGED <<sessions, calls, handlers, error_history, conversation_memory, smart_caching>>

CallSelectRecoveryStrategy(error_type, confidence, session_id) ==
  /\ session_id \in DOMAIN sessions
  /\ last' = [op |-> "_select_recovery_strategy",
              error_type |-> error_type,
              confidence |-> confidence,
              session_id |-> session_id,
              before |-> sessions,
              result |-> _select_recovery_strategy(error_type, confidence,
                                                   sessions[session_id])]
  /\ now' = now + 1
  /\ UNCHANGED <<sessions, calls, handlers, error_history, conversation_memory, smart_caching>>

\* generate_recovery_response that empties the context of the session when
\* the strategy is CONTEXT_RESET
GenerateRecoveryResponseResetting(error_type, confidence, session_id) ==
  /\ session_id \in DOMAIN sessions
  /\ error_history' =
       generate_recovery_response(error_history, error_type, confidence,
                                  sessions[session_id], now + 1)
  /\ sessions' =
       IF _select_recovery_strategy(error_type, confidence,
                                    sessions[session_id]) = CONTEXT_RESET
       THEN [sessions EXCEPT ![session_id].context =
                               ConversationContext(session_id)]
       ELSE sessions
  /\ last' = [op |-> "generate_recovery_response",
              error_type |-> error_type,
              confidence |-> confidence,
              session_id |-> session_id,
              before |-> sessions,
              result |-> _select_recovery_strategy(error_type, confidence,
                                                   sessions[session_id])]
  /\ now' = now + 1
  /\ UNCHANGED <<calls, handlers, conversation_memory, smart_caching>>

GenerateRecoveryResponse(error_type, confidence, session_id) ==
  /\ session_id \in DOMAIN sessions
  /\ error_history' =
       generate_recovery_response(error_history, error_type, confidence,
                                  sessions[session_id], now + 1)
  /\ last' = [op |-> "generate_recovery_response",
              error_type |-> error_type,
              confidence |-> confidence,
              session_id |-> session_id,
              before |-> sessions,
              result |-> _select_recovery_strategy(error_type, confidence,
                                                   sessions[session_id])]
  /\ now' = now + 1
  /\ UNCHANGED <<sessions, calls, handlers, conversation_memory, smart_caching>>

TrackConversationQuality(session_id, user_msg, ai_response) ==
  /\ conversation_memory' =
       track_conversation_quality(conversation_memory, session_id, user_msg,
                                  ai_response, now + 1)
  /\ last' = [op |-> "track_conversation_quality",
              session_id |-> session_id,
              message |-> user_msg,
              response |-> ai_response,
              before |-> sessions]
  /\ now' = now + 1
  /\ UNCHANGED <<sessions, calls, handlers, error_history, smart_caching>>

RecoveryProcessMessage ==
  /\ now < MaxRecoveryCalls
  /\ \E message \in RECOVERY_MESSAGES : ProcessMessage(message, "s1")

RecoveryAddAssistantResponse ==
  /\ now < MaxRecoveryCalls
  /\ AddAssistantResponse("s1", RESPONSE)

RecoveryDetect ==
  /\ now < MaxRecoveryCalls
  /\ \E message \in RECOVERY_MESSAGES : DetectConversationIssues(message, "s1")

RecoverySelect ==
  /\ now < MaxRecoveryCalls
  /\ \E error_type \in RECOVERY_ERRORS :
       \E confidence \in RECOVERY_CONFIDENCES :
         CallSelectRecoveryStrategy(error_type, confidence, "s1")

RecoveryGenerate ==
  /\ now < MaxRecoveryCalls
  /\ \E error_type \in RECOVERY_ERRORS :
       \E confidence \in RECOVERY_CONFIDENCES :
         GenerateRecoveryResponse(error_type, confidence, "s1")

RecoveryTrack ==
  /\ now < MaxRecoveryCalls
  /\ "s1" \in DOMAIN sessions
  /\ \E user_msg \in RECOVERY_MESSAGES :
       TrackConversationQuality("s1", user_msg, RESPONSE)

NextRecovery ==
  \/ RecoveryProcessMessage
  \/ RecoveryAddAssistantResponse
  \/ RecoveryDetect
  \/ RecoverySelect
  \/ RecoveryGenerate
  \/ RecoveryTrack

\* the calls of the engine on one session, with the calls of the recovery
\* engine and of the context manager in between
SpecRecovery == Init /\ [][NextRecovery]_vars

QualityTrack ==
  /\ now < MaxTracked
  /\ \E user_msg \in QUALITY_MESSAGES :
       TrackConversationQuality("s1", user_msg, RESPONSE)

\* one context manager that tracks the exchanges of one session
SpecQuality == Init /\ [][QualityTrack]_vars

-----------------------------------------------------------------------------
(* Properties of the recovery engine and of the quality memory *)

\* C13: for the message "this is confusing, I already told you",
\* detect_conversation_issues computes a frustration score above 0.6 and
\* reports USER_FRUSTRATION, and the strategy selected for USER_FRUSTRATION
\* at a confidence above 0.8 is ESCALATION
ConfusingMessageIsFrustration ==
  /\ (last.op = "detect_conversation_issues" /\ last.message = M_CONFUSING) =>
       /\ last.frustration_score > 600
       /\ \E k \in DOMAIN last.result : last.result[k][1] = USER_FRUSTRATION
  /\ (/\ last.op \in {"_select_recovery_strategy", "generate_recovery_response"}
      /\ last.error_type = USER_FRUSTRATION
      /\ last.confidence > 800) => last.result = ESCALATION

\* the calls that the quality tracking and the recovery are made of
QUALITY_OPERATIONS ==
  {"track_conversation_quality", "detect_conversation_issues",
   "_select_recovery_strategy", "generate_recovery_response"}

\* C14: track_conversation_quality, detect_conversation_issues,
\* _select_recovery_strategy and generate_recovery_response leave the
\* sessions as they were: state, context, detected_intents and messages
\* are the same after the call as before it; the quality memory and the
\* error history are all that they write
QualityOperationsKeepSession ==
  [][last'.op \in QUALITY_OPERATIONS =>
       /\ sessions' = sessions
       /\ sessions' = last'.before
       /\ UNCHANGED <<calls, handlers>>]_vars

\* a recovery with the strategy CONTEXT_RESET on a session whose destination
\* is set, and is still set after it
ContextResetKeepsDestination ==
  /\ last.op = "generate_recovery_response"
  /\ last.result = CONTEXT_RESET
  /\ "s1" \in DOMAIN error_history
  /\ sessions["s1"].context.current_destination = <<"Tokyo">>
  /\ Len(sessions["s1"].messages) = 2

\* the entry of the memory for a session, NewMemory before the first update
memory_of(memory, id) ==
  IF id \in DOMAIN memory THEN memory[id] ELSE NewMemory

\* the topics of the session once those of the exchange are added, before
\* the cut
extended_topics(memory, id, user_msg, ai_response) ==
  memory_of(memory, id).topics_discussed
    \o _extract_topics(user_msg \o ai_response)

last_entries(list, n) == SubSeq(list, Len(list) - n + 1, Len(list))

\* C15: after every track_conversation_quality the memory of the session
\* holds at most 20 topics and at most 50 quality trends; an update that
\* takes the topics past 20 leaves the last 15 of them, one that takes the
\* trends past 50 leaves the last 30, the oldest ones being dropped
QualityMemoryBounded ==
  [][last'.op = "track_conversation_quality" =>
       /\ Len(conversation_memory'["s1"].topics_discussed) <= 20
       /\ Len(conversation_memory'["s1"].quality_trends) <= 50
       /\ conversation_memory'["s1"].topics_discussed =
            IF Len(extended_topics(conversation_memory, "s1", last'.message,
                                   last'.response)) > 20
            THEN last_entries(extended_topics(conversation_memory, "s1",
                                last'.message, last'.response), 15)
            ELSE extended_topics(conversation_memory, "s1", last'.message,
                                 last'.response)
       /\ conversation_memory'["s1"].quality_trends =
            IF Len(memory_of(conversation_memory, "s1").quality_trends) = 50
            THEN Tail(last_entries(
                        memory_of(conversation_memory, "s1").quality_trends,
                        30))
                   \o <<[timestamp |-> now']>>
            ELSE Append(memory_of(conversation_memory, "s1").quality_trends,
                        [timestamp |-> now'])]_vars

\* the fifty-first exchange has cut the trends to thirty, and the topics
\* were cut to fifteen
MemoryWasCut ==
  /\ now = 51
  /\ Len(conversation_memory["s1"].quality_trends) = 30
  /\ conversation_memory["s1"].quality_trends[1].timestamp = 22
  /\ Len(conversation_memory["s1"].topics_discussed) = 15
  /\ last.message = M_HOTEL

-----------------------------------------------------------------------------
(* Conversations of a few messages on two sessions *)

\* the calls made on the engine in a short conversation
MaxScenarioCalls == 4

\* the texts of the conversations: a destination with an interest, a
\* destination, a question about it, the empty text, a destination in lower
\* case, a text with two intents, a question of safety that ends as a
\* question about the place
SCENARIO_MESSAGES ==
  {M_ICELAND, M_TOKYO, M_WEATHER, M_EMPTY, M_PARIS_LOWER, M_HOTEL,
   M_SAFE_THERE}

SCENARIO_SESSION_IDS == {"s1", "s2"}

ScenarioProcessMessage ==
  /\ now < MaxScenarioCalls
  /\ \E message \in SCENARIO_MESSAGES : \E session_id \in SCENARIO_SESSION_IDS :
       ProcessMessage(message, session_id)

ScenarioAddAssistantResponse ==
  /\ now < MaxScenarioCalls
  /\ \E session_id \in DOMAIN sessions : AddAssistantResponse(session_id, RESPONSE)

NextScenario ==
  \/ ScenarioProcessMessage
  \/ ScenarioAddAssistantResponse

SpecScenario == Init /\ [][NextScenario]_vars

-----------------------------------------------------------------------------
(* Properties of short conversations *)

\* the context of the session of the last call, before the call: the new
\* context when the call created the session
context_before ==
  IF last.created THEN ConversationContext(last.result)
  ELSE last.before[last.result].context

user_contents(session) ==
  [k \in 1..Len(SelectSeq(session.messages,
                          LAMBDA message : message.role = USER)) |->
     SelectSeq(session.messages, LAMBDA message : message.role = USER)[k].content]

\* C16: "I want to visit Iceland for landscape photography", processed as
\* the first message of a new session, gives current_destination "Iceland",
\* the interest landscape_photography, the intent DESTINATION_INQUIRY and
\* the state DESTINATION_PLANNING
IcelandForLandscapePhotography ==
  (last.op = "process_message" /\ last.message = M_ICELAND /\ last.created) =>
    /\ sessions[last.result].context.current_destination = <<"Iceland">>
    /\ InSeq("landscape_photography", sessions[last.result].context.interests)
    /\ InSeq(DESTINATION_INQUIRY, last.intents)
    /\ sessions[last.result].state = DESTINATION_PLANNING

\* C17: with a destination set, a message from which no destination is
\* extracted leaves current_destination and previous_destinations as they
\* were; after "I'm heading to Tokyo" and then "What's the weather like
\* there?" on one session the destination is "Tokyo" after each of them,
\* and the intents of the second hold WEATHER_CHECK
DestinationKeptWithoutExtraction ==
  /\ (/\ last.op = "process_message"
      /\ context_before.current_destination # None
      /\ extract_destinations(last.message) = <<>>) =>
       /\ sessions[last.result].context.current_destination =
            context_before.current_destination
       /\ sessions[last.result].context.previous_destinations =
            context_before.previous_destinations
  /\ \A id \in DOMAIN sessions :
       /\ user_contents(sessions[id]) = <<M_TOKYO>> =>
            sessions[id].context.current_destination = <<"Tokyo">>
       /\ user_contents(sessions[id]) = <<M_TOKYO, M_WEATHER>> =>
            /\ sessions[id].context.current_destination = <<"Tokyo">>
            /\ InSeq(WEATHER_CHECK, sessions[id].detected_intents)

\* the question about the weather, and then the name of another city in
\* lower case, in the session that is heading to Tokyo
TokyoThenWeather ==
  /\ last.op = "process_message"
  /\ last.message = M_PARIS_LOWER
  /\ user_contents(sessions[last.result]) = <<M_TOKYO, M_WEATHER, M_PARIS_LOWER>>
  /\ sessions[last.result].context.current_destination = <<"Tokyo">>

\* the one intent that detect_intents gives to a message without a pattern
default_by_destination(context) ==
  IF context.current_destination # None THEN <<ACTIVITY_REQUEST>>
  ELSE <<DESTINATION_INQUIRY>>

\* C18 as it is stated: process_message("") returns the session and the one
\* default intent, and the context of the session is the one it had before
\* the call, or the new context of a session that the call created
EmptyMessageKeepsContext ==
  (last.op = "process_message" /\ last.message = M_EMPTY) =>
    /\ last.result \in DOMAIN sessions
    /\ last.intents = default_by_destination(context_before)
    /\ sessions[last.result].context = context_before

\* C18: process_message("") returns the session and the one default intent
\* (ACTIVITY_REQUEST with a destination, DESTINATION_INQUIRY without), and
\* the context of the session is the one it had before the call, or the new
\* context of a session that the call created, but for conversation_depth,
\* which is one more
EmptyMessageCountsOnly ==
  (last.op = "process_message" /\ last.message = M_EMPTY) =>
    /\ last.result \in DOMAIN sessions
    /\ last.intents = default_by_destination(context_before)
    /\ sessions[last.result].detected_intents = last.intents
    /\ sessions[last.result].context =
         [context_before EXCEPT !.conversation_depth = @ + 1]

\* the empty message in a session whose destination is Tokyo
EmptyMessageAfterTokyo ==
  /\ last.op = "process_message"
  /\ last.message = M_EMPTY
  /\ ~last.created
  /\ context_before.current_destination = <<"Tokyo">>
  /\ sessions[last.result].context.conversation_depth = 2
  /\ last.intents = <<ACTIVITY_REQUEST>>

\* the messages of session id before the step, none when it is new
messages_before(id) ==
  IF id \in DOMAIN sessions THEN sessions[id].messages ELSE <<>>

\* C19: the messages of a session only grow, at their end: process_message
\* adds the message of the user, add_assistant_response adds the answer, and
\* no call removes, moves or changes a message; a session that processed k
\* messages and took no answer holds k messages
MessagesAppendOnly ==
  /\ [][\A id \in DOMAIN sessions' :
          sessions'[id].messages =
            IF last'.op = "process_message" /\ last'.result = id
            THEN Append(messages_before(id), Message(USER, last'.message))
            ELSE IF last'.op = "add_assistant_response" /\ last'.session_id = id
              THEN Append(messages_before(id), Message(ASSISTANT, last'.message))
            ELSE messages_before(id)]_vars
  /\ [][DOMAIN sessions \subseteq DOMAIN sessions']_vars
  /\ [](\A id \in DOMAIN sessions :
          (\A k \in DOMAIN sessions[id].messages :
             sessions[id].messages[k].role = USER) =>
            Len(sessions[id].messages) = calls[id].processed)

\* a message, its answer and a message again, in that order
MessageAnswerMessage ==
  \E id \in DOMAIN sessions :
    /\ Len(sessions[id].messages) = 3
    /\ sessions[id].messages[1] = Message(USER, M_TOKYO)
    /\ sessions[id].messages[2] = Message(ASSISTANT, RESPONSE)
    /\ sessions[id].messages[3] = Message(USER, M_WEATHER)

\* C20: detect_intents returns the intents in the order of their
\* detection, so that the first one returned is the first one detected, and
\* two new sessions that process the same messages hold the same list of
\* intents and go through the same states
IntentsInDetectionOrder ==
  /\ last.op = "process_message" =>
       last.intents = detected(last.message, last.detect_context)
  /\ \A a, b \in DOMAIN sessions :
       user_contents(sessions[a]) = user_contents(sessions[b]) =>
         /\ sessions[a].detected_intents = sessions[b].detected_intents
         /\ sessions[a].state = sessions[b].state

-----------------------------------------------------------------------------
(* The order of the rules of determine_next_state *)

\* the state machine's table names a state for the current state and the
\* first intent of the list
in_table(current_state, intents) ==
  /\ intents # <<>>
  /\ intents[1] \in DOMAIN STATE_TRANSITIONS[current_state]

\* C21: where the table has no entry for the current state and the primary
\* intent, determine_next_state returns RecommendationRefinement at every
\* depth above 8, whatever the primary intent; at the depths up to 8 the
\* override is not taken and another state is returned
DepthOverrideWithoutEntry ==
  (/\ last.op = "determine_next_state"
   /\ last.intents # <<>>
   /\ ~in_table(last.state, last.intents)) =>
     IF last.detect_context.conversation_depth > 8
     THEN last.result = RECOMMENDATION_REFINEMENT
     ELSE last.result # RECOMMENDATION_REFINEMENT

\* the ninth message, with an intent that Greeting has no entry for
OverrideAtDepthNine ==
  /\ last.op = "determine_next_state"
  /\ last.detect_context.conversation_depth = 9
  /\ last.state = GREETING
  /\ last.intents = <<WEATHER_CHECK, ACTIVITY_REQUEST>>
  /\ last.result = RECOMMENDATION_REFINEMENT

\* C22: where the table has no entry and the depth is at most 8, the next
\* state is that of the primary intent alone: DestinationInquiry gives
\* DestinationPlanning, ActivityRequest gives ActivityDiscovery,
\* PracticalAdvice and BudgetPlanning give PracticalPlanning, and
\* WeatherCheck, CulturalInfo and PackingHelp give ContextEnrichment; this
\* is how RecommendationRefinement, which has no entries, is left
GenericFallbackByIntent ==
  /\ (/\ last.op = "determine_next_state"
      /\ last.intents # <<>>
      /\ ~in_table(last.state, last.intents)
      /\ last.detect_context.conversation_depth <= 8) =>
        last.result =
          CASE last.intents[1] = DESTINATION_INQUIRY -> DESTINATION_PLANNING
            [] last.intents[1] = ACTIVITY_REQUEST -> ACTIVITY_DISCOVERY
            [] last.intents[1] \in {PRACTICAL_ADVICE, BUDGET_PLANNING} ->
                 PRACTICAL_PLANNING
            [] last.intents[1] \in {WEATHER_CHECK, CULTURAL_INFO, PACKING_HELP} ->
                 CONTEXT_ENRICHMENT
  /\ (/\ last.op = "determine_next_state"
      /\ last.state = RECOMMENDATION_REFINEMENT
      /\ last.intents # <<>>) => ~in_table(last.state, last.intents)

\* RecommendationRefinement is left for PracticalPlanning on a budget
\* question at depth 8
RefinementLeftOnBudget ==
  /\ last.op = "determine_next_state"
  /\ last.state = RECOMMENDATION_REFINEMENT
  /\ last.detect_context.conversation_depth = 8
  /\ last.intents = <<BUDGET_PLANNING>>
  /\ last.result = PRACTICAL_PLANNING

-----------------------------------------------------------------------------
(* The passes of detect_intents and the context they read *)

\* C23: with an established destination, the implicit pass adds an intent
\* whenever the explicit patterns did not find that intent: a message that
\* matches an implicit ActivityRequest pattern and no explicit one has
\* ActivityRequest among its intents, also when other intents were
\* detected, and likewise for WeatherCheck
ImplicitPassAddsMissingIntent ==
  (/\ last.op = "process_message"
   /\ last.detect_context.current_destination # None) =>
     /\ (/\ PatternMatches[last.message].implicit_activity
         /\ ACTIVITY_REQUEST \notin Range(PatternMatches[last.message].explicit)) =>
           ACTIVITY_REQUEST \in Range(last.intents)
     /\ (/\ PatternMatches[last.message].implicit_weather
         /\ WEATHER_CHECK \notin Range(PatternMatches[last.message].explicit)) =>
           WEATHER_CHECK \in Range(last.intents)

\* C24: the intents of a message are those of its text and of the context
\* the session had before the message: a destination that the message is the
\* first to mention is not an established one for the default intent or the
\* implicit pass of that message
IntentsFromPriorContext ==
  last.op = "process_message" =>
    last.intents \in detect_intents(last.message, context_before)

-----------------------------------------------------------------------------
(* The smart cache under a long run of writes *)

\* the calls of _update_smart_cache
MaxCacheCalls == 102

\* the first writes are writes of keys not written before, at successive
\* times; the writes after them are of any kind
DistinctFirst == 96

InitCache ==
  /\ sessions = EmptyStore
  /\ now = 0
  /\ last = [op |-> "none", cache_key |-> 0, before |-> <<>>, written |-> 0,
             fresh |-> 0]
  /\ calls = [id \in {} |-> NoCount]
  /\ handlers = <<>>
  /\ error_history = [id \in {} |-> <<>>]
  /\ conversation_memory = [id \in {} |-> <<>>]
  /\ smart_caching = <<>>

\* the keys of a write: one not written before, the first and the last key
\* of the dict
written_keys ==
  {last.fresh + 1} \cup
  (IF last.written < DistinctFirst \/ smart_caching = <<>> THEN {}
   ELSE {smart_caching[1].key, smart_caching[Len(smart_caching)].key})

\* datetime.now() of a write: later than the one before or, when two writes
\* follow each other within the resolution of the clock, the same
write_times ==
  {now + 1} \cup (IF last.written < DistinctFirst THEN {} ELSE {now})

UpdateSmartCache ==
  /\ last.written < MaxCacheCalls
  /\ \E cache_key \in written_keys : \E t \in write_times :
       /\ smart_caching' =
            _update_smart_cache(smart_caching, cache_key, FRESH_CONFIDENCE, t)
       /\ now' = t
       /\ last' = [op |-> "_update_smart_cache",
                   cache_key |-> cache_key,
                   before |-> smart_caching,
                   written |-> last.written + 1,
                   fresh |-> IF cache_key > last.fresh THEN cache_key
                             ELSE last.fresh]
  /\ UNCHANGED <<sessions, calls, handlers, error_history, conversation_memory>>

SpecCache == InitCache /\ [][UpdateSmartCache]_vars

\* the entries that the last write removed from the cache
evicted_entries ==
  {i \in DOMAIN last.before :
     /\ last.before[i].key # last.cache_key
     /\ last.before[i].key \notin cached_keys(smart_caching)}

\* C25: after every _update_smart_cache the cache holds at most 100 entries;
\* a write that takes it past 100 evicts 20 entries, none of them newer than
\* an entry that stays, and the entry just written stays; a write that does
\* not take it past 100 evicts nothing
SmartCacheBounded ==
  last.op = "_update_smart_cache" =>
    /\ Len(smart_caching) <= 100
    /\ last.cache_key \in cached_keys(smart_caching)
    /\ smart_caching[position(smart_caching, last.cache_key)].timestamp = now
    /\ IF /\ Len(last.before) = 100
          /\ last.cache_key \notin cached_keys(last.before)
       THEN /\ Cardinality(evicted_entries) = 20
            /\ Len(smart_caching) = 81
            /\ \A i \in evicted_entries : \A k \in DOMAIN smart_caching :
                 last.before[i].timestamp <= smart_caching[k].timestamp
       ELSE evicted_entries = {}

\* the write of the 101st key, after the first key of the dict was written
\* again: that key stays, and 20 keys written after it are evicted
EvictionKeepsRewrittenKey ==
  /\ last.op = "_update_smart_cache"
  /\ Len(last.before) = 100
  /\ Len(smart_caching) = 81
  /\ smart_caching[1].key = 1
  /\ smart_caching[1].access_count = 2
  /\ smart_caching[2].key = 22
  /\ smart_caching[81].key = last.cache_key


\* the handlers that tracked the quality of an exchange of the session
tracked_turns(id) ==
  {h \in DOMAIN handlers : handlers[h].answered /\ handlers[h].session = id}

\* the time at which the handler tracked its exchange
tracked_at(h) ==
  LET trends ==
        handlers[h].conversation_memory[handlers[h].session].quality_trends
  IN  trends[Len(trends)].timestamp

\* C26: after k tracked turns of a session the quality_trends of the session
\* hold k entries, and the progress score of a turn is measured on the
\* memory that the turns before it left
QualityAccumulatesAcrossTurns ==
  \A id \in DOMAIN sessions :
    /\ tracked_turns(id) # {} =>
         \E h \in tracked_turns(id) :
           Len(handlers[h].conversation_memory[id].quality_trends)
             = Cardinality(tracked_turns(id))
    /\ \A earlier, later \in tracked_turns(id) :
         tracked_at(earlier) < tracked_at(later) =>
           handlers[later].quality_metrics.conversation_progress
             # UNKNOWN_PROGRESS

\* C27: a session is in the state Greeting exactly while no message has been
\* processed for it (conversation_depth = 0), and the session that a
\* process_message call returns is never in Greeting
GreetingOnlyBeforeFirstMessage ==
  /\ \A id \in DOMAIN sessions :
       sessions[id].state = GREETING
         <=> sessions[id].context.conversation_depth = 0
  /\ last.op = "process_message" => sessions[last.result].state # GREETING

\* a weather question, for which Greeting has no table entry, took a session
\* out of Greeting while another session, got but not written to, is in it
GreetingLeftWithoutEntry ==
  /\ last.op = "process_message"
  /\ last.message = M_WEATHER
  /\ last.result \in DOMAIN last.before
  /\ last.before[last.result].state = GREETING
  /\ sessions[last.result].state = CONTEXT_ENRICHMENT
  /\ sessions[last.result].context.conversation_depth = 1
  /\ \E id \in DOMAIN sessions :
       /\ sessions[id].state = GREETING
       /\ Len(sessions[id].messages) = 0

-----------------------------------------------------------------------------
(* One long conversation *)

\* the messages of the conversation
MaxDeepCalls == 11

\* the texts of the conversation: a destination, a practical question and a
\* text that no pattern matches
DEEP_MESSAGES == {M_TOKYO, M_SAFE, M_HMM}

DeepProcessMessage ==
  /\ now < MaxDeepCalls
  /\ \E message \in DEEP_MESSAGES : ProcessMessage(message, "s1")

\* one client that sends message after message on the session id "s1"
SpecDeep == Init /\ [][DeepProcessMessage]_vars

\* C28: a session that is in RecommendationRefinement at a depth above 8 is
\* in RecommendationRefinement after every further process_message, whatever
\* the message, and its depth never decreases
RefinementAbsorbingWhenDeep ==
  [][\A id \in DOMAIN sessions :
       (/\ sessions[id].state = RECOMMENDATION_REFINEMENT
        /\ sessions[id].context.conversation_depth > 8) =>
         /\ sessions'[id].state = RECOMMENDATION_REFINEMENT
         /\ sessions'[id].context.conversation_depth
              >= sessions[id].context.conversation_depth]_vars

\* the practical question, which takes a session out of
\* RecommendationRefinement at a depth up to 8, left the session in it at
\* depth 10
PracticalQuestionInDeepRefinement ==
  /\ last.op = "process_message"
  /\ last.message = M_SAFE
  /\ last.intents[1] = PRACTICAL_ADVICE
  /\ "s1" \in DOMAIN last.before
  /\ last.before["s1"].state = RECOMMENDATION_REFINEMENT
  /\ last.before["s1"].context.conversation_depth = 9
  /\ sessions["s1"].state = RECOMMENDATION_REFINEMENT
  /\ sessions["s1"].context.conversation_depth = 10

\* the state of the session before the last call
state_before ==
  IF last.result \in DOMAIN last.before THEN last.before[last.result].state
  ELSE GREETING

\* C29: where the table names a state for the state of the session and the
\* primary intent of the message, process_message puts the session in that
\* state at every depth, the depths above 8 included
TableEntryBeforeDepthOverride ==
  (/\ last.op = "process_message"
   /\ in_table(state_before, last.intents)) =>
     sessions[last.result].state
       = STATE_TRANSITIONS[state_before][last.intents[1]]

\* the eleventh message of a conversation, a practical question asked in
\* ActivityDiscovery, takes the session to PracticalPlanning
DeepSessionFollowsTable ==
  /\ last.op = "process_message"
  /\ sessions[last.result].context.conversation_depth = 11
  /\ state_before = ACTIVITY_DISCOVERY
  /\ last.intents[1] = PRACTICAL_ADVICE
  /\ sessions[last.result].state = PRACTICAL_PLANNING

-----------------------------------------------------------------------------
(* The recovery branch of chat() *)

\* the handler of the request that has just arrived
arrived == handlers'[Len(handlers')]

\* C30: a request for an existing session in whose message the recovery
\* engine sees an issue of confidence above 0.7 is answered by the recovery
\* branch, which leaves the sessions (messages, depth, context, state and
\* detected intents) and the count of processed messages as they were; every
\* other request is processed
RecoveryLeavesSessionUntouched ==
  [][Len(handlers') = Len(handlers) + 1 =>
       IF critical_issues(arrived.message, arrived.session_id) # <<>>
       THEN /\ arrived.pc = "recovered"
            /\ arrived.session = arrived.session_id
            /\ sessions' = sessions
            /\ calls' = calls
            /\ error_history' # error_history
       ELSE /\ arrived.pc # "recovered"
            /\ calls'[arrived.session].processed
                 = (IF arrived.session \in DOMAIN calls
                    THEN calls[arrived.session].processed ELSE 0) + 1]_vars

\* the second request of the session "s1" was answered by the recovery
\* branch: one message processed, one user message in the session
AngryMessageNotRecorded ==
  /\ Len(handlers) = 2
  /\ handlers[2].pc = "recovered"
  /\ handlers[2].message = M_ANGRY
  /\ handlers[1].session = "s1"
  /\ handlers[1].pc # "recovered"
  /\ calls["s1"].processed = 1
  /\ sessions["s1"].context.conversation_depth = 1
  /\ \A i \in DOMAIN sessions["s1"].messages :
       sessions["s1"].messages[i].content # M_ANGRY
  /\ error_history["s1"] # <<>>
====
